---------------------------- MODULE Spec2Model ----------------------------
(***************************************************************************)
(* root-readspeed: the throughput engine of src/src/ReadSpeed.hxx          *)
(* (EvalThroughput, its single-thread and multi-thread paths, GetClusters, *)
(* MergeClusters, GetMatchingBranchNames, ReadTree and the sumBytes        *)
(* reduction).                                                             *)
(*                                                                         *)
(* ROOT itself (TFile, TTree, TThreadExecutor) is outside the repository.  *)
(* It is represented by a small file system (World) and by the contract    *)
(* the code relies on: TFile::Open yields a handle that is a zombie when   *)
(* the file cannot be opened, a TFile counts the bytes read through it,    *)
(* a TTree hands out its cluster boundaries, and MapReduce applies the     *)
(* function once to every element, in any order, on at most as many        *)
(* threads as the pool has, and then reduces the vector of results.        *)
(*                                                                         *)
(* ULong64_t counters are kept modulo 2^WordBits. TLC's integers are 32    *)
(* bits wide, so the 64 bit word is scaled down to WordBits bits; the      *)
(* arithmetic is the same modular arithmetic.                              *)
(***************************************************************************)
EXTENDS Integers, Sequences, FiniteSets, TLC

(***************************************************************************)
(* Bounds of the model.                                                    *)
(***************************************************************************)
\* width of the scaled-down ULong64_t word
WordBits == 6
\* longest fFileNames / fTreeNames list of a dataset
MaxFiles == 2
\* largest thread count requested from EvalThroughput
MaxThreads == 2
\* largest value of TTreeProcessorMT::GetTasksPerWorkerHint()
MaxHint == 2
\* most native clusters of the tree of "a.root"
MaxRunClusters == 3
\* most native clusters of one file handed to MergeClusters on its own
MaxClusters == 5
\* most entries of one native cluster handed to MergeClusters on its own
MaxClusterEntries == 2
\* largest maxTasksPerFile handed to MergeClusters on its own
MaxTasks == 5
\* most words of a command line
MaxArgs == 4

Wrap == 2 ^ WordBits

\* ULong64_t addition and subtraction (unsigned, wrapping)
AddU64(a, b) == (a + b) % Wrap
SubU64(a, b) == (a - b + Wrap) % Wrap

Min(a, b) == IF a < b THEN a ELSE b

Range(s) == {s[i] : i \in DOMAIN s}

\* all sequences over S of length lo..hi
SeqsOf(S, lo, hi) == UNION {[1..n -> S] : n \in lo..hi}

(***************************************************************************)
(* struct EntryRange, struct ByteData                                      *)
(***************************************************************************)
EntryRange(s, e) == [fStart |-> s, fEnd |-> e]

ByteData(u, c) == [fUncompressedBytesRead |-> u, fCompressedBytesRead |-> c]

(***************************************************************************)
(* sumBytes: two std::accumulate calls from 0ull over the vector, one per  *)
(* counter.                                                                *)
(***************************************************************************)
RECURSIVE Accumulate(_, _, _)
Accumulate(bytesData, init, field) ==
    IF bytesData = <<>> THEN init
    ELSE Accumulate(Tail(bytesData), AddU64(init, Head(bytesData)[field]), field)

sumBytesDropsCompressed(bytesData) ==
    ByteData(Accumulate(bytesData, 0, "fUncompressedBytesRead"),
             Accumulate(bytesData, 0, "fUncompressedBytesRead"))

sumBytes(bytesData) ==
    ByteData(Accumulate(bytesData, 0, "fUncompressedBytesRead"),
             Accumulate(bytesData, 0, "fCompressedBytesRead"))

(***************************************************************************)
(* MergeClusters.                                                          *)
(*                                                                         *)
(* nClustersInThisFile / maxTasksPerFile divides by zero when              *)
(* maxTasksPerFile == 0, which is undefined behaviour. divZero names what  *)
(* the build does with it: "trap" (the division instruction faults, as on  *)
(* x86: the process dies of SIGFPE) or "zero" (the instruction yields 0,   *)
(* as on AArch64).                                                         *)
(***************************************************************************)
DivZeroOutcomes == {"trap", "zero"}

\* MergeLoop taking the end of a merged range from fStart of its last cluster
RECURSIVE MergeLoopEndsAtStart(_, _, _, _, _)
MergeLoopEndsAtStart(clustersInThisFile, i, nFolds, nReminderClusters, acc) ==
    IF i >= Len(clustersInThisFile) \/ acc.oob
    THEN [acc EXCEPT !.nReminderClusters = nReminderClusters]
    ELSE LET start == clustersInThisFile[i + 1].fStart
             i1 == i + (nFolds - 1)
             i2 == IF nReminderClusters > 0 THEN i1 + 1 ELSE i1
             rem2 == IF nReminderClusters > 0 THEN nReminderClusters - 1
                     ELSE nReminderClusters
         IN IF i2 >= Len(clustersInThisFile)
            THEN [acc EXCEPT !.oob = TRUE, !.maxIdx = i2]
            ELSE MergeLoopEndsAtStart(clustersInThisFile, i2 + 1, nFolds, rem2,
                           [acc EXCEPT
                              !.ranges = Append(@, EntryRange(start,
                                            clustersInThisFile[i2 + 1].fStart)),
                              !.maxIdx = i2])

\* MergeLoop without the distribution of the remainder: the last merged range
\* takes the clusters that are left over
RECURSIVE MergeLoopReminderLast(_, _, _, _, _)
MergeLoopReminderLast(clustersInThisFile, i, nFolds, nReminderClusters, acc) ==
    IF i >= Len(clustersInThisFile)
    THEN [acc EXCEPT !.nReminderClusters = 0]
    ELSE LET start == clustersInThisFile[i + 1].fStart
             i1 == i + (nFolds - 1)
             left == Len(clustersInThisFile) - (i1 + 1)
             i2 == IF left < nFolds THEN Len(clustersInThisFile) - 1 ELSE i1
         IN MergeLoopReminderLast(clustersInThisFile, i2 + 1, nFolds,
                           nReminderClusters,
                           [acc EXCEPT
                              !.ranges = Append(@, EntryRange(start,
                                            clustersInThisFile[i2 + 1].fEnd)),
                              !.maxIdx = i2])

\* MergeLoop without the decrement of the remainder counter
RECURSIVE MergeLoopKeepsReminder(_, _, _, _, _)
MergeLoopKeepsReminder(clustersInThisFile, i, nFolds, nReminderClusters, acc) ==
    IF i >= Len(clustersInThisFile) \/ acc.oob
    THEN [acc EXCEPT !.nReminderClusters = nReminderClusters]
    ELSE LET start == clustersInThisFile[i + 1].fStart
             i1 == i + (nFolds - 1)
             i2 == IF nReminderClusters > 0 THEN i1 + 1 ELSE i1
         IN IF i2 >= Len(clustersInThisFile)
            THEN [acc EXCEPT !.oob = TRUE, !.maxIdx = i2,
                             !.nReminderClusters = nReminderClusters]
            ELSE MergeLoopKeepsReminder(clustersInThisFile, i2 + 1, nFolds,
                           nReminderClusters,
                           [acc EXCEPT
                              !.ranges = Append(@, EntryRange(start,
                                            clustersInThisFile[i2 + 1].fEnd)),
                              !.maxIdx = i2])

\* the loop of lines 294-306 from index i (0-based) on; acc is the merged list
\* built so far, maxIdx the largest index at which clustersInThisFile has been
\* read, oob whether an index beyond the list has been read
RECURSIVE MergeLoop(_, _, _, _, _)
MergeLoop(clustersInThisFile, i, nFolds, nReminderClusters, acc) ==
    IF i >= Len(clustersInThisFile) \/ acc.oob
    THEN [acc EXCEPT !.nReminderClusters = nReminderClusters]
    ELSE LET start == clustersInThisFile[i + 1].fStart
             i1 == i + (nFolds - 1)
             i2 == IF nReminderClusters > 0 THEN i1 + 1 ELSE i1
             rem2 == IF nReminderClusters > 0 THEN nReminderClusters - 1
                     ELSE nReminderClusters
         IN IF i2 >= Len(clustersInThisFile)
            THEN [acc EXCEPT !.oob = TRUE, !.maxIdx = i2,
                             !.nReminderClusters = rem2]
            ELSE MergeLoop(clustersInThisFile, i2 + 1, nFolds, rem2,
                           [acc EXCEPT
                              !.ranges = Append(@, EntryRange(start,
                                            clustersInThisFile[i2 + 1].fEnd)),
                              !.maxIdx = i2])

\* MergeFile keeping the clusters as they are when nFolds <= 1
MergeFileKeepsOneFold(clustersInThisFile, maxTasksPerFile, divZero) ==
    LET nClustersInThisFile == Len(clustersInThisFile)
        idle == [status |-> "ok", ranges |-> <<>>, nReminderClusters |-> 0,
                 maxIdx |-> -1, oob |-> FALSE]
    IN IF maxTasksPerFile = 0
       THEN IF divZero = "trap"
            THEN [idle EXCEPT !.status = "sigfpe"]
            ELSE [idle EXCEPT !.ranges = clustersInThisFile]
       ELSE LET nFolds == nClustersInThisFile \div maxTasksPerFile
                nReminderClusters == nClustersInThisFile % maxTasksPerFile
            IN IF nFolds <= 1
               THEN [idle EXCEPT !.ranges = clustersInThisFile]
               ELSE MergeLoop(clustersInThisFile, 0, nFolds, nReminderClusters,
                              idle)

\* one iteration of the loop over the files (lines 282-307)
MergeFile(clustersInThisFile, maxTasksPerFile, divZero) ==
    LET nClustersInThisFile == Len(clustersInThisFile)
        idle == [status |-> "ok", ranges |-> <<>>, nReminderClusters |-> 0,
                 maxIdx |-> -1, oob |-> FALSE]
    IN IF maxTasksPerFile = 0
       THEN IF divZero = "trap"
            THEN [idle EXCEPT !.status = "sigfpe"]
            ELSE [idle EXCEPT !.ranges = clustersInThisFile]
       ELSE LET nFolds == nClustersInThisFile \div maxTasksPerFile
                nReminderClusters == nClustersInThisFile % maxTasksPerFile
            IN IF nFolds = 0
               THEN [idle EXCEPT !.ranges = clustersInThisFile]
               ELSE MergeLoop(clustersInThisFile, 0, nFolds, nReminderClusters,
                              idle)

\* MergeClusters: status "ok" and the merged lists, one per file, or "sigfpe"
MergeClusters(clusters, maxTasksPerFile, divZero) ==
    LET perFile == [f \in DOMAIN clusters |->
                      MergeFile(clusters[f], maxTasksPerFile, divZero)]
    IN [status |-> IF \E f \in DOMAIN clusters : perFile[f].status = "sigfpe"
                   THEN "sigfpe" ELSE "ok",
        mergedClusters |-> [f \in DOMAIN clusters |-> perFile[f].ranges],
        trace |-> perFile]

(***************************************************************************)
(* The files ROOT can see. "a.root" holds the tree "t", whose cluster      *)
(* layout (the number of entries of each native cluster, in order) is      *)
(* chosen by Init; "b.root" holds the trees "t" and "u"; "gone.root"       *)
(* cannot be opened. No tree has friends.                                  *)
(***************************************************************************)
VARIABLES layoutA

FileUniverse == {"a.root", "b.root", "gone.root"}

TreeUniverse == {"t", "u"}

NoTree == [present |-> FALSE, branches |-> <<>>, clusterSizes |-> <<>>]

Tree(branches, clusterSizes) ==
    [present |-> TRUE, branches |-> branches, clusterSizes |-> clusterSizes]

\* TFile::Open(fileName) then f->Get<TTree>(treeName): the tree, or NoTree
WorldTree(fileName, treeName) ==
    CASE fileName = "a.root" /\ treeName = "t" -> Tree(<<"x", "y">>, layoutA)
      [] fileName = "b.root" /\ treeName = "t" -> Tree(<<"x", "y">>, <<1, 2>>)
      [] fileName = "b.root" /\ treeName = "u" -> Tree(<<"y", "x_branch">>, <<3>>)
      [] OTHER -> NoTree

FileExists(fileName) == fileName \in {"a.root", "b.root"}

RECURSIVE SumSeq(_)
SumSeq(s) == IF s = <<>> THEN 0 ELSE Head(s) + SumSeq(Tail(s))

\* t->GetEntries()
GetEntries(tree) == SumSeq(tree.clusterSizes)

\* b->GetEntry(e): the uncompressed bytes of one entry of branch bName
GetEntry(bName) == IF bName = "x" THEN 4 ELSE 8

\* the compressed bytes of the baskets of branch bName in a cluster of n entries
BasketBytes(bName, n) == IF bName = "x" THEN n + 1 ELSE n + 2

(***************************************************************************)
(* GetClusters, for one tree: the ranges the cluster iterator yields       *)
(* (lines 258-264). start = it.Next() is the first entry of the cluster,   *)
(* it.GetNextEntry() the first entry of the next one.                      *)
(***************************************************************************)
\* ClusterRanges with an iterator whose last GetNextEntry() is one past the
\* number of entries
RECURSIVE ClusterRangesPastEnd(_, _)
ClusterRangesPastEnd(clusterSizes, start) ==
    IF clusterSizes = <<>> THEN <<>>
    ELSE <<EntryRange(start, start + Head(clusterSizes)
                                + (IF Tail(clusterSizes) = <<>> THEN 1 ELSE 0))>>
         \o ClusterRangesPastEnd(Tail(clusterSizes), start + Head(clusterSizes))

RECURSIVE ClusterRanges(_, _)
ClusterRanges(clusterSizes, start) ==
    IF clusterSizes = <<>> THEN <<>>
    ELSE <<EntryRange(start, start + Head(clusterSizes))>>
         \o ClusterRanges(Tail(clusterSizes), start + Head(clusterSizes))

\* d.fTreeNames.size() > 1 ? d.fTreeNames[fileIdx] : d.fTreeNames[0]  (fileIdx 1-based)
TreeNameOf(dd, fIdx) ==
    IF Len(dd.fTreeNames) > 1 THEN dd.fTreeNames[fIdx] ELSE dd.fTreeNames[1]

NoError == [what |-> "none", file |-> "", tree |-> "", msg |-> <<>>]

\* e.what() of the std::runtime_error thrown, as the pieces it is concatenated
\* from; a crash carries no message
Message(what, fileName, treeName) ==
    CASE what = "open" -> <<"Could not open file '", fileName, "'">>
      [] what = "tree" ->
            <<"Could not retrieve tree '", treeName, "' from file '", fileName, "'">>
      [] what = "clusters open" ->
            <<"There was a problem opening file '", fileName, "'">>
      [] what = "clusters tree" ->
            <<"There was a problem retrieving TTree '", treeName, "' from file '",
              fileName, "'">>
      [] what = "nomatch" ->
            <<"Provided branch regexes didn't match any branches in the tree.">>
      [] what = "notfound" -> <<"Some branches/regexes weren't found in the tree...">>
      [] what = "range" ->
            <<"Range end is beyod the end of tree '", treeName, "' in file '",
              fileName, "'">>
      [] what = "no tree name" -> <<"Please provide at least one tree name">>
      [] what = "no file name" -> <<"Please provide at least one file name">>
      [] what = "no branch name" -> <<"Please provide at least one branch name">>
      [] what = "tree name count" ->
            <<"Please provide either one tree name or as many as the file names">>
      [] OTHER -> <<>>

\* an exception: where it was thrown (what, file, tree) and its message
Error(what, fileName, treeName) ==
    [what |-> what, file |-> fileName, tree |-> treeName,
     msg |-> Message(what, fileName, treeName)]

\* GetClusters from file fileIdx on: the ranges of every file, or the error of
\* the first file that cannot be opened or lacks its tree; opened lists the
\* files opened, in order
RECURSIVE GetClustersFrom(_, _, _)
GetClustersFrom(dd, fIdx, acc) ==
    IF fIdx > Len(dd.fFileNames) THEN acc
    ELSE LET fileName == dd.fFileNames[fIdx]
             treeName == TreeNameOf(dd, fIdx)
             t == WorldTree(fileName, treeName)
             acc1 == [acc EXCEPT !.opened = Append(@, fileName)]
         IN IF ~FileExists(fileName)
            THEN [acc1 EXCEPT !.status = "throw",
                              !.err = Error("clusters open", fileName, "")]
            ELSE IF ~t.present
            THEN [acc1 EXCEPT !.status = "throw",
                              !.err = Error("clusters tree", fileName, treeName)]
            ELSE GetClustersFrom(dd, fIdx + 1,
                    [acc1 EXCEPT !.ranges = Append(@, ClusterRanges(t.clusterSizes, 0))])

GetClusters(dd) ==
    GetClustersFrom(dd, 1, [status |-> "ok", err |-> NoError, ranges |-> <<>>,
                           opened |-> <<>>])

(***************************************************************************)
(* GetMatchingBranchNames.                                                 *)
(***************************************************************************)
\* std::regex_match(bName, std::regex(regex)) for the patterns of the model:
\* the whole name must match
RegexMatch(bName, regex) ==
    CASE regex = ".*" -> TRUE
      [] regex = "x|y" -> bName \in {"x", "y"}
      [] regex = "x_.*" -> bName \in {"x_branch"}
      [] OTHER -> bName = regex

matchBranchAlwaysRegex(bName, regex, useRegex) == RegexMatch(bName, regex)

\* the lambda matchBranch (lines 133-146), without its insertion
matchBranch(bName, regex, useRegex) ==
    IF ~useRegex THEN bName = regex ELSE RegexMatch(bName, regex)

\* std::find_if(regexes.begin(), regexes.end(), matchBranch): the index of the
\* first selector that matches bName, 0 when none does (regexes.end())
FindIf(bName, regexes, useRegex) ==
    IF \E i \in DOMAIN regexes : matchBranch(bName, regexes[i], useRegex)
    THEN CHOOSE i \in DOMAIN regexes :
            /\ matchBranch(bName, regexes[i], useRegex)
            /\ \A j \in 1..(i - 1) : ~matchBranch(bName, regexes[j], useRegex)
    ELSE 0

\* usedRegexes after the copy_if: find_if stops at the first selector that
\* matches, so only that one is inserted for a branch
UsedRegexes(unfiltered, regexes, useRegex) ==
    {regexes[FindIf(unfiltered[b], regexes, useRegex)] :
        b \in {c \in DOMAIN unfiltered : FindIf(unfiltered[c], regexes, useRegex) # 0}}

GetMatchingBranchNamesKeepsGoing(fileName, treeName, regexes, useRegex) ==
    LET t == WorldTree(fileName, treeName)
        branchNames == SelectSeq(t.branches,
                          LAMBDA bName : FindIf(bName, regexes, useRegex) # 0)
    IN IF ~FileExists(fileName)
       THEN [status |-> "throw", err |-> Error("open", fileName, treeName),
             branchNames |-> <<>>]
       ELSE IF ~t.present
       THEN [status |-> "throw", err |-> Error("tree", fileName, treeName),
             branchNames |-> <<>>]
       ELSE [status |-> "ok", err |-> NoError, branchNames |-> branchNames]

GetMatchingBranchNames(fileName, treeName, regexes, useRegex) ==
    LET t == WorldTree(fileName, treeName)
        unfilteredBranchNames == t.branches
        filterBranchName(bName) == FindIf(bName, regexes, useRegex) # 0
        branchNames == SelectSeq(unfilteredBranchNames, filterBranchName)
        usedRegexes == UsedRegexes(unfilteredBranchNames, regexes, useRegex)
        fail(what) == [status |-> "throw", err |-> Error(what, fileName, treeName),
                       branchNames |-> <<>>]
    IN IF ~FileExists(fileName) THEN fail("open")
       ELSE IF ~t.present THEN fail("tree")
       ELSE IF branchNames = <<>> /\ useRegex THEN fail("nomatch")
       ELSE IF Cardinality(usedRegexes) # Len(regexes) THEN fail("notfound")
       ELSE [status |-> "ok", err |-> NoError, branchNames |-> branchNames]

(***************************************************************************)
(* ReadTree. f is the thread_local TFile* of the calling thread.           *)
(***************************************************************************)
NullFile == [isNull |-> TRUE, name |-> "", zombie |-> FALSE, bytesRead |-> 0]

\* TFile::Open(fileName): a fresh handle; opening reads the file header
TFileOpen(fileName) ==
    [isNull |-> FALSE, name |-> fileName, zombie |-> ~FileExists(fileName),
     bytesRead |-> IF FileExists(fileName) THEN 3 ELSE 0]

\* the native clusters of the tree that hold an entry of [s, e)
ClustersTouched(tree, s, e) ==
    LET cl == ClusterRanges(tree.clusterSizes, 0)
    IN {c \in DOMAIN cl : cl[c].fStart < e /\ s < cl[c].fEnd /\ s < e}

\* what the loop of lines 206-208 adds to bytesRead
UncompressedBytes(branchNames, s, e) ==
    LET perEntry == SumSeq([i \in DOMAIN branchNames |-> GetEntry(branchNames[i])])
    IN IF s < e THEN ((e - s) * perEntry) % Wrap ELSE 0

\* what the loop of lines 206-208 makes the file read: every basket that holds
\* an entry of the range, once per branch (the TTree object is new in each call)
BasketBytesRead(tree, branchNames, s, e) ==
    LET touched == ClustersTouched(tree, s, e)
        perCluster == [c \in DOMAIN tree.clusterSizes |->
            IF c \in touched
            THEN SumSeq([i \in DOMAIN branchNames |->
                           BasketBytes(branchNames[i], tree.clusterSizes[c])])
            ELSE 0]
    IN SumSeq(perCluster) % Wrap

ReadTreeCountsFromZero(f, treeName, fileName, branchNames, range) ==
    LET f1 == IF f.isNull \/ f.name # fileName THEN TFileOpen(fileName) ELSE f
        t == WorldTree(fileName, treeName)
        f2 == [f1 EXCEPT !.bytesRead = AddU64(@, 2)]
        nEntries == GetEntries(t)
        r == IF range.fStart = -1 THEN EntryRange(0, nEntries) ELSE range
        f3 == [f2 EXCEPT !.bytesRead =
                 AddU64(@, BasketBytesRead(t, branchNames, r.fStart, r.fEnd))]
    IN [status |-> "ok", err |-> NoError, f |-> f3, opened |-> (f1 # f),
        range |-> r,
        data |-> ByteData(UncompressedBytes(branchNames, r.fStart, r.fEnd),
                          f3.bytesRead)]

ReadTreeStopsEarly(f, treeName, fileName, branchNames, range) ==
    LET f1 == IF f.isNull \/ f.name # fileName THEN TFileOpen(fileName) ELSE f
        t == WorldTree(fileName, treeName)
        f2 == [f1 EXCEPT !.bytesRead = AddU64(@, 2)]
        nEntries == GetEntries(t)
        r == IF range.fStart = -1
             THEN EntryRange(0, IF nEntries > 0 THEN nEntries - 1 ELSE 0)
             ELSE range
        f3 == [f2 EXCEPT !.bytesRead =
                 AddU64(@, BasketBytesRead(t, branchNames, r.fStart, r.fEnd))]
    IN [status |-> "ok", err |-> NoError, f |-> f3, opened |-> (f1 # f),
        range |-> r,
        data |-> ByteData(UncompressedBytes(branchNames, r.fStart, r.fEnd),
                          SubU64(f3.bytesRead, f2.bytesRead))]

\* status "ok" with the ByteData, "throw" with the error, or "segv" when a name
\* of branchNames is no branch of the tree (GetBranch returns nullptr, which
\* line 192 dereferences); f is the thread's handle afterwards, opened whether
\* TFile::Open was called
ReadTree(f, treeName, fileName, branchNames, range) ==
    LET f1 == IF f.isNull \/ f.name # fileName THEN TFileOpen(fileName) ELSE f
        t == WorldTree(fileName, treeName)
        \* f->Get<TTree> reads the tree's key
        f2 == [f1 EXCEPT !.bytesRead = AddU64(@, 2)]
        nEntries == GetEntries(t)
        r == IF range.fStart = -1 THEN EntryRange(0, nEntries) ELSE range
        fileStartBytes == f2.bytesRead
        f3 == [f2 EXCEPT !.bytesRead =
                 AddU64(@, BasketBytesRead(t, branchNames, r.fStart, r.fEnd))]
        fileBytesRead == SubU64(f3.bytesRead, fileStartBytes)
        out(status, what, handle) ==
            [status |-> status, err |-> Error(what, fileName, treeName),
             f |-> handle, opened |-> (f1 # f), range |-> r, data |-> ByteData(0, 0)]
    IN IF f1.zombie THEN out("throw", "open", f1)
       ELSE IF ~t.present THEN out("throw", "tree", f1)
       ELSE IF \E i \in DOMAIN branchNames : branchNames[i] \notin Range(t.branches)
       THEN out("segv", "branch", f2)
       ELSE IF range.fStart # -1 /\ range.fEnd > nEntries THEN out("throw", "range", f2)
       ELSE [status |-> "ok", err |-> NoError, f |-> f3, opened |-> (f1 # f),
             range |-> r,
             data |-> ByteData(UncompressedBytes(branchNames, r.fStart, r.fEnd),
                               fileBytesRead)]

(***************************************************************************)
(* The program state.                                                      *)
(*                                                                         *)
(* A behaviour is a process that calls EvalThroughput(d, 0) and then       *)
(* EvalThroughput(d, nThreads) with nThreads > 0 on the same dataset, as   *)
(* the integration test does. Thread 1 is the calling thread; it is one of *)
(* the threads of the pool, and its thread_local handle outlives a call.   *)
(***************************************************************************)
VARIABLES
    d,                  \* the Data handed to EvalThroughput
    nThreads,           \* the thread count requested in the second call
    actualThreads,      \* what ROOT::GetThreadPoolSize() returns once the pool exists
    tasksPerWorkerHint, \* ROOT::TTreeProcessorMT::GetTasksPerWorkerHint()
    callNo,             \* 1: the call with nThreads == 0, 2: the call with nThreads > 0
    pc,                 \* where the current call is
    fileIdx,            \* the file the single-thread loop is at (1-based)
    treeIdx,            \* treeIdx of EvalThroughputST (0-based)
    total,              \* uncompressedBytesRead, compressedBytesRead of EvalThroughputST
    err,                \* the exception the current call has thrown
    opened,             \* the files opened by the current call outside ReadTree, in order
    resolved,           \* the GetMatchingBranchNames calls the current call has made, in order
    reads,              \* the ReadTree calls the current call has finished, per thread
    poolCreated,        \* whether the current call has constructed a TThreadExecutor
    maxTasksPerFile,
    rangesPerFile,
    fileBranchNames,
    outer,              \* processFile(fileIdx): "pending", "running", "done"
    fileTotals,         \* what processFile(fileIdx) returned
    leaf,               \* readRange of task <<fileIdx, rangeIdx>>: "pending", "running", "done"
    leafData,           \* what readRange returned
    threads,            \* per thread: its thread_local TFile *f and the task it runs
    result,             \* the Result the current call returned
    finished            \* the outcome of the calls that are over

\* MergeClusters, sumBytes, the command line of main, the read tasks of a pool
\* and GetMatchingBranchNames are also run on their own, on inputs drawn by the
\* initial state; a call of EvalThroughput leaves these alone
VARIABLES
    merge,   \* a call of MergeClusters and a second call on what it returned
    acct,    \* applications of sumBytes to the ByteData a, b, c
    cli,     \* a run of main: the command line, what ParseArgs returned, what main did
    rt,      \* a pool of threads running ReadTree on a list of ranges
    sel      \* a call of GetMatchingBranchNames

runVars == <<d, nThreads, actualThreads, tasksPerWorkerHint, layoutA, callNo, pc,
             fileIdx, treeIdx, total, err, opened, resolved, reads, poolCreated,
             maxTasksPerFile, rangesPerFile, fileBranchNames, outer, fileTotals,
             leaf, leafData, threads, result, finished>>

inputVars == <<d, nThreads, actualThreads, tasksPerWorkerHint, layoutA>>

mtVars == <<maxTasksPerFile, rangesPerFile, fileBranchNames, outer, fileTotals,
            leaf, leafData>>

stVars == <<fileIdx, treeIdx, total>>

\* the selector lists a dataset may carry
SelectorLists ==
    {<<>>, <<"x">>, <<"x", "y">>, <<"z">>, <<".*">>, <<"x_.*">>}

Datasets ==
    [fTreeNames : SeqsOf(TreeUniverse, 0, MaxFiles),
     fFileNames : SeqsOf(FileUniverse, 0, MaxFiles),
     fBranchNames : SelectorLists,
     fUseRegex : BOOLEAN]

\* the cluster layouts of "a.root": n clusters of alternately 2 and 1 entries
\* (a dataset that does not name "a.root" is run with the empty layout only)
Layouts == {[i \in 1..n |-> 1 + (i % 2)] : n \in 0..MaxRunClusters}

NoResult ==
    [fUncompressedBytesRead |-> 0, fCompressedBytesRead |-> 0, fThreadPoolSize |-> 0,
     fSetupTimed |-> FALSE]

NoTask == <<>>

\* the state in which a call starts: nothing of the previous call is left but
\* the thread_local handles
CallStart ==
    /\ pc' = "EvalThroughput"
    /\ fileIdx' = 1
    /\ treeIdx' = 0
    /\ total' = ByteData(0, 0)
    /\ err' = NoError
    /\ opened' = <<>>
    /\ resolved' = <<>>
    /\ reads' = [k \in DOMAIN threads |-> <<>>]
    /\ poolCreated' = FALSE
    /\ maxTasksPerFile' = 0
    /\ rangesPerFile' = <<>>
    /\ fileBranchNames' = <<>>
    /\ outer' = <<>>
    /\ fileTotals' = <<>>
    /\ leaf' = <<>>
    /\ leafData' = <<>>
    /\ result' = NoResult

RunInit ==
    /\ d \in Datasets
    /\ nThreads \in 1..MaxThreads
    /\ actualThreads \in 1..nThreads
    /\ tasksPerWorkerHint \in 1..MaxHint
    /\ layoutA \in IF "a.root" \in Range(d.fFileNames) THEN Layouts ELSE {<<>>}
    /\ callNo = 1
    /\ pc = "EvalThroughput"
    /\ fileIdx = 1
    /\ treeIdx = 0
    /\ total = ByteData(0, 0)
    /\ err = NoError
    /\ opened = <<>>
    /\ resolved = <<>>
    /\ reads = [k \in 1..actualThreads |-> <<>>]
    /\ poolCreated = FALSE
    /\ maxTasksPerFile = 0
    /\ rangesPerFile = <<>>
    /\ fileBranchNames = <<>>
    /\ outer = <<>>
    /\ fileTotals = <<>>
    /\ leaf = <<>>
    /\ leafData = <<>>
    /\ threads = [k \in 1..actualThreads |-> [f |-> NullFile, task |-> NoTask]]
    /\ result = NoResult
    /\ finished = <<>>

\* the nThreads argument of the current call
NThreadsArg == IF callNo = 1 THEN 0 ELSE nThreads

Throw(e) ==
    /\ pc' = "thrown"
    /\ err' = e

(***************************************************************************)
(* EvalThroughput (lines 376-388): the four checks, then the dispatch.     *)
(***************************************************************************)
ConfigErrorNoCountCheck(dd) ==
    IF dd.fTreeNames = <<>> THEN "no tree name"
    ELSE IF dd.fFileNames = <<>> THEN "no file name"
    ELSE IF dd.fBranchNames = <<>> THEN "no branch name"
    ELSE "none"

ConfigError(dd) ==
    IF dd.fTreeNames = <<>> THEN "no tree name"
    ELSE IF dd.fFileNames = <<>> THEN "no file name"
    ELSE IF dd.fBranchNames = <<>> THEN "no branch name"
    ELSE IF Len(dd.fTreeNames) # 1 /\ Len(dd.fTreeNames) # Len(dd.fFileNames)
    THEN "tree name count"
    ELSE "none"

EvalThroughput ==
    /\ pc = "EvalThroughput"
    /\ IF ConfigError(d) # "none"
       THEN Throw(Error(ConfigError(d), "", ""))
       ELSE /\ pc' = IF NThreadsArg > 0 THEN "EvalThroughputMT" ELSE "EvalThroughputST"
            /\ err' = err
    /\ UNCHANGED <<inputVars, callNo, stVars, opened, resolved, reads, poolCreated, mtVars,
                   threads, result, finished>>
    /\ UNCHANGED <<merge, acct, cli, rt, sel>>

(***************************************************************************)
(* EvalThroughputST: one iteration of the loop over d.fFileNames (lines    *)
(* 222-235), and the return (line 237). The calling thread is thread 1.    *)
(***************************************************************************)
STLoopBody ==
    /\ pc = "EvalThroughputST"
    /\ fileIdx <= Len(d.fFileNames)
    /\ LET fName == d.fFileNames[fileIdx]
           treeName == d.fTreeNames[treeIdx + 1]
           m == GetMatchingBranchNames(fName, treeName, d.fBranchNames, d.fUseRegex)
           r == ReadTree(threads[1].f, treeName, fName, m.branchNames,
                         EntryRange(-1, -1))
       IN /\ opened' = Append(opened, fName)
          /\ resolved' = Append(resolved, [file |-> fileIdx, status |-> m.status,
                                           branchNames |-> m.branchNames])
          /\ IF m.status # "ok"
             THEN /\ Throw(m.err)
                  /\ UNCHANGED <<stVars, reads, threads>>
             ELSE /\ threads' = [threads EXCEPT ![1].f = r.f]
                  /\ reads' = [reads EXCEPT ![1] = Append(@,
                        [file |-> fileIdx, range |-> r.range, opened |-> r.opened,
                         status |-> r.status, branchNames |-> m.branchNames])]
                  /\ IF r.status # "ok"
                     THEN /\ Throw(r.err)
                          /\ UNCHANGED stVars
                     ELSE /\ total' = ByteData(
                                AddU64(total.fUncompressedBytesRead,
                                       r.data.fUncompressedBytesRead),
                                AddU64(total.fCompressedBytesRead,
                                       r.data.fCompressedBytesRead))
                          /\ treeIdx' = IF Len(d.fTreeNames) > 1 THEN treeIdx + 1
                                        ELSE treeIdx
                          /\ fileIdx' = fileIdx + 1
                          /\ UNCHANGED <<pc, err>>
    /\ UNCHANGED <<inputVars, callNo, poolCreated, mtVars, result, finished>>
    /\ UNCHANGED <<merge, acct, cli, rt, sel>>

STReturn ==
    /\ pc = "EvalThroughputST"
    /\ fileIdx > Len(d.fFileNames)
    /\ pc' = "returned"
    /\ result' = [fUncompressedBytesRead |-> total.fUncompressedBytesRead,
                  fCompressedBytesRead |-> total.fCompressedBytesRead,
                  fThreadPoolSize |-> 0, fSetupTimed |-> FALSE]
    /\ UNCHANGED <<inputVars, callNo, stVars, err, opened, resolved, reads, poolCreated,
                   mtVars, threads, finished>>
    /\ UNCHANGED <<merge, acct, cli, rt, sel>>

(***************************************************************************)
(* EvalThroughputMT.                                                       *)
(***************************************************************************)
\* std::ceil(float(a) / float(b)) for the small positive integers of the model
CeilDiv(a, b) == (a + b - 1) \div b

MaxTasksPerFileFloor(hint, threadPoolSize, nFiles) == (hint * threadPoolSize) \div nFiles

\* lines 322-323
MaxTasksPerFile(hint, threadPoolSize, nFiles) == CeilDiv(hint * threadPoolSize, nFiles)

\* the loop of lines 330-336 from file fIdx (1-based) on, tIdx being treeIdx
RECURSIVE FileBranchNamesFrom(_, _, _, _)
FileBranchNamesFrom(dd, fIdx, tIdx, acc) ==
    IF fIdx > Len(dd.fFileNames) THEN acc
    ELSE LET fName == dd.fFileNames[fIdx]
             m == GetMatchingBranchNames(fName, dd.fTreeNames[tIdx + 1],
                                         dd.fBranchNames, dd.fUseRegex)
             acc1 == [acc EXCEPT !.opened = Append(@, fName)]
         IN IF m.status # "ok"
            THEN [acc1 EXCEPT !.status = "throw", !.err = m.err]
            ELSE FileBranchNamesFrom(dd, fIdx + 1,
                    IF Len(dd.fTreeNames) > 1 THEN tIdx + 1 ELSE tIdx,
                    [acc1 EXCEPT !.names = Append(@, m.branchNames)])

\* lines 315-326: the pool, maxTasksPerFile, GetClusters and MergeClusters
MTClusters ==
    /\ pc = "EvalThroughputMT"
    /\ poolCreated' = TRUE
    /\ LET m == MaxTasksPerFile(tasksPerWorkerHint, actualThreads, Len(d.fFileNames))
           g == GetClusters(d)
           mc == MergeClusters(g.ranges, m, "trap")
       IN /\ maxTasksPerFile' = m
          /\ opened' = g.opened
          /\ IF g.status # "ok"
             THEN /\ Throw(g.err)
                  /\ UNCHANGED rangesPerFile
             ELSE IF mc.status # "ok"
             THEN /\ Throw(Error("sigfpe", "", ""))
                  /\ UNCHANGED rangesPerFile
             ELSE /\ rangesPerFile' = mc.mergedClusters
                  /\ pc' = "fileBranchNames"
                  /\ err' = err
    /\ UNCHANGED <<inputVars, callNo, stVars, resolved, reads, fileBranchNames, outer,
                   fileTotals, leaf, leafData, threads, result, finished>>
    /\ UNCHANGED <<merge, acct, cli, rt, sel>>

\* lines 328-336: the column names of every file; then the tasks exist
MTBranchNames ==
    /\ pc = "fileBranchNames"
    /\ LET b == FileBranchNamesFrom(d, 1, 0,
                   [status |-> "ok", err |-> NoError, names |-> <<>>, opened |-> <<>>])
           tasks == {<<f, r>> : f \in DOMAIN rangesPerFile, r \in 1..maxTasksPerFile}
           mine == {t \in tasks : t[2] <= Len(rangesPerFile[t[1]])}
       IN /\ opened' = opened \o b.opened
          /\ resolved' = [i \in 1..Len(b.opened) |->
                [file |-> i,
                 status |-> IF i <= Len(b.names) THEN "ok" ELSE "throw",
                 branchNames |-> IF i <= Len(b.names) THEN b.names[i] ELSE <<>>]]
          /\ IF b.status # "ok"
             THEN /\ Throw(b.err)
                  /\ UNCHANGED <<fileBranchNames, outer, fileTotals, leaf, leafData>>
             ELSE /\ fileBranchNames' = b.names
                  /\ outer' = [f \in DOMAIN rangesPerFile |-> "pending"]
                  /\ fileTotals' = [f \in DOMAIN rangesPerFile |-> ByteData(0, 0)]
                  /\ leaf' = [t \in mine |-> "pending"]
                  /\ leafData' = [t \in mine |-> ByteData(0, 0)]
                  /\ pc' = "MapReduce"
                  /\ err' = err
    /\ UNCHANGED <<inputVars, callNo, stVars, reads, poolCreated, maxTasksPerFile,
                   rangesPerFile, threads, result, finished>>
    /\ UNCHANGED <<merge, acct, cli, rt, sel>>

\* the outer MapReduce (line 364) starts processFile(f) on a thread of the pool
\* that runs no task; the thread then waits in the inner MapReduce (line 359)
\* and is free to run tasks itself
ProcessFileStart(f) ==
    /\ pc = "MapReduce"
    /\ outer[f] = "pending"
    /\ \E k \in DOMAIN threads : threads[k].task = NoTask
    /\ outer' = [outer EXCEPT ![f] = "running"]
    /\ UNCHANGED <<inputVars, callNo, pc, stVars, err, opened, resolved, reads, poolCreated,
                   maxTasksPerFile, rangesPerFile, fileBranchNames, fileTotals,
                   leaf, leafData, threads, result, finished>>
    /\ UNCHANGED <<merge, acct, cli, rt, sel>>

\* the inner MapReduce hands readRange(range) of a started file to thread k
ReadRangeStart(k, t) ==
    /\ pc = "MapReduce"
    /\ outer[t[1]] = "running"
    /\ leaf[t] = "pending"
    /\ threads[k].task = NoTask
    /\ leaf' = [leaf EXCEPT ![t] = "running"]
    /\ threads' = [threads EXCEPT ![k].task = t]
    /\ UNCHANGED <<inputVars, callNo, pc, stVars, err, opened, resolved, reads, poolCreated,
                   maxTasksPerFile, rangesPerFile, fileBranchNames, outer,
                   fileTotals, leafData, result, finished>>
    /\ UNCHANGED <<merge, acct, cli, rt, sel>>

ReadRangeRunResolves(k) ==
    /\ pc = "MapReduce"
    /\ threads[k].task # NoTask
    /\ LET t == threads[k].task
           m == GetMatchingBranchNames(d.fFileNames[t[1]], TreeNameOf(d, t[1]),
                                       d.fBranchNames, d.fUseRegex)
           r == ReadTree(threads[k].f, TreeNameOf(d, t[1]), d.fFileNames[t[1]],
                         m.branchNames, rangesPerFile[t[1]][t[2]])
       IN /\ threads' = [threads EXCEPT ![k] = [f |-> r.f, task |-> NoTask]]
          /\ resolved' = Append(resolved, [file |-> t[1], status |-> m.status,
                                           branchNames |-> m.branchNames])
          /\ reads' = [reads EXCEPT ![k] = Append(@,
                [file |-> t[1], range |-> r.range, opened |-> r.opened,
                 status |-> r.status, branchNames |-> m.branchNames])]
          /\ leaf' = [leaf EXCEPT ![t] = "done"]
          /\ leafData' = [leafData EXCEPT ![t] = r.data]
          /\ UNCHANGED <<pc, err>>
    /\ UNCHANGED <<inputVars, callNo, stVars, opened, poolCreated, maxTasksPerFile,
                   rangesPerFile, fileBranchNames, outer, fileTotals, result,
                   finished>>
    /\ UNCHANGED <<merge, acct, cli, rt, sel>>

\* readRange (lines 355-357): thread k runs ReadTree on its task; an exception
\* ends the MapReduce and leaves EvalThroughputMT
ReadRangeRun(k) ==
    /\ pc = "MapReduce"
    /\ threads[k].task # NoTask
    /\ LET t == threads[k].task
           r == ReadTree(threads[k].f, TreeNameOf(d, t[1]), d.fFileNames[t[1]],
                         fileBranchNames[t[1]], rangesPerFile[t[1]][t[2]])
       IN /\ threads' = [threads EXCEPT ![k] = [f |-> r.f, task |-> NoTask]]
          /\ reads' = [reads EXCEPT ![k] = Append(@,
                [file |-> t[1], range |-> r.range, opened |-> r.opened,
                 status |-> r.status, branchNames |-> fileBranchNames[t[1]]])]
          /\ IF r.status # "ok"
             THEN /\ Throw(r.err)
                  /\ UNCHANGED <<leaf, leafData>>
             ELSE /\ leaf' = [leaf EXCEPT ![t] = "done"]
                  /\ leafData' = [leafData EXCEPT ![t] = r.data]
                  /\ UNCHANGED <<pc, err>>
    /\ UNCHANGED <<inputVars, callNo, stVars, opened, resolved, poolCreated, maxTasksPerFile,
                   rangesPerFile, fileBranchNames, outer, fileTotals, result,
                   finished>>
    /\ UNCHANGED <<merge, acct, cli, rt, sel>>

\* the results of the tasks of file f, in the order of rangesPerFile[f]
LeafResults(f) == [r \in 1..Len(rangesPerFile[f]) |-> leafData[<<f, r>>]]

ProcessFileDoneEarly(f) == outer[f] = "running"

\* when the inner MapReduce of file f may reduce: all its tasks are done
ProcessFileDone(f) ==
    /\ outer[f] = "running"
    /\ \A r \in 1..Len(rangesPerFile[f]) : leaf[<<f, r>>] = "done"

\* processFile(f) returns sumBytes of its tasks' results (line 359)
ProcessFileReduce(f) ==
    /\ pc = "MapReduce"
    /\ ProcessFileDone(f)
    /\ fileTotals' = [fileTotals EXCEPT ![f] = sumBytes(LeafResults(f))]
    /\ outer' = [outer EXCEPT ![f] = "done"]
    /\ UNCHANGED <<inputVars, callNo, pc, stVars, err, opened, resolved, reads, poolCreated,
                   maxTasksPerFile, rangesPerFile, fileBranchNames, leaf, leafData,
                   threads, result, finished>>
    /\ UNCHANGED <<merge, acct, cli, rt, sel>>

MTReturnRequestedSize ==
    /\ pc = "MapReduce"
    /\ \A f \in DOMAIN outer : outer[f] = "done"
    /\ LET totalByteData == sumBytes(fileTotals)
       IN result' = [fUncompressedBytesRead |-> totalByteData.fUncompressedBytesRead,
                     fCompressedBytesRead |-> totalByteData.fCompressedBytesRead,
                     fThreadPoolSize |-> nThreads, fSetupTimed |-> TRUE]
    /\ pc' = "returned"
    /\ UNCHANGED <<inputVars, callNo, stVars, err, opened, resolved, reads,
                   poolCreated, mtVars, threads, finished>>
    /\ UNCHANGED <<merge, acct, cli, rt, sel>>

\* the outer MapReduce reduces and EvalThroughputMT returns (lines 364-373)
MTReturn ==
    /\ pc = "MapReduce"
    /\ \A f \in DOMAIN outer : outer[f] = "done"
    /\ LET totalByteData == sumBytes(fileTotals)
       IN result' = [fUncompressedBytesRead |-> totalByteData.fUncompressedBytesRead,
                     fCompressedBytesRead |-> totalByteData.fCompressedBytesRead,
                     fThreadPoolSize |-> actualThreads, fSetupTimed |-> TRUE]
    /\ pc' = "returned"
    /\ UNCHANGED <<inputVars, callNo, stVars, err, opened, resolved, reads, poolCreated, mtVars,
                   threads, finished>>
    /\ UNCHANGED <<merge, acct, cli, rt, sel>>

(***************************************************************************)
(* The caller: once the first call has returned or thrown, the second call *)
(* is made.                                                                *)
(***************************************************************************)
Outcome ==
    [status |-> pc, result |-> result, err |-> err, opened |-> opened,
     reads |-> reads, poolCreated |-> poolCreated]

NextCall ==
    /\ pc \in {"returned", "thrown"}
    /\ callNo = 1
    /\ callNo' = 2
    /\ finished' = Append(finished, Outcome)
    /\ CallStart
    /\ threads' = [k \in DOMAIN threads |-> [threads[k] EXCEPT !.task = NoTask]]
    /\ UNCHANGED inputVars
    /\ UNCHANGED <<merge, acct, cli, rt, sel>>

Next ==
    \/ EvalThroughput
    \/ STLoopBody
    \/ STReturn
    \/ MTClusters
    \/ MTBranchNames
    \/ \E f \in DOMAIN outer : ProcessFileStart(f)
    \/ \E k \in DOMAIN threads : \E t \in DOMAIN leaf : ReadRangeStart(k, t)
    \/ \E k \in DOMAIN threads : ReadRangeRun(k)
    \/ \E f \in DOMAIN outer : ProcessFileReduce(f)
    \/ MTReturn
    \/ NextCall

(***************************************************************************)
(* The whole state, and the values of its parts that are not in use.       *)
(***************************************************************************)
vars == <<runVars, merge, acct, cli, rt, sel>>

MergeIdle ==
    [pc |-> "idle", clusters |-> <<>>, maxTasksPerFile |-> 0, divZero |-> "trap",
     out |-> <<>>, cap2 |-> 0, out2 |-> <<>>]

AcctIdle == [pc |-> "idle"]

CliIdle == [pc |-> "idle"]

PoolIdle == [pc |-> "idle"]

SelIdle == [pc |-> "idle"]

\* no call of EvalThroughput is made; "a.root" has the given cluster layout
RunStopped(layout) ==
    /\ d = [fTreeNames |-> <<>>, fFileNames |-> <<>>, fBranchNames |-> <<>>,
            fUseRegex |-> FALSE]
    /\ nThreads = 0
    /\ actualThreads = 0
    /\ tasksPerWorkerHint = 0
    /\ layoutA = layout
    /\ callNo = 0
    /\ pc = "idle"
    /\ fileIdx = 1
    /\ treeIdx = 0
    /\ total = ByteData(0, 0)
    /\ err = NoError
    /\ opened = <<>>
    /\ resolved = <<>>
    /\ reads = <<>>
    /\ poolCreated = FALSE
    /\ maxTasksPerFile = 0
    /\ rangesPerFile = <<>>
    /\ fileBranchNames = <<>>
    /\ outer = <<>>
    /\ fileTotals = <<>>
    /\ leaf = <<>>
    /\ leafData = <<>>
    /\ threads = <<>>
    /\ result = NoResult
    /\ finished = <<>>

\* no call of EvalThroughput is made
RunIdle == RunStopped(<<>>)

Init ==
    /\ RunInit
    /\ merge = MergeIdle
    /\ acct = AcctIdle
    /\ cli = CliIdle
    /\ rt = PoolIdle
    /\ sel = SelIdle

\* the process that calls EvalThroughput twice
Spec == Init /\ [][Next]_vars

(***************************************************************************)
(* MergeClusters on its own.                                               *)
(***************************************************************************)
\* the cluster lists GetClusters can return for one tree: abutting ranges from 0
ClusterLists ==
    {ClusterRanges(sizes, 0) : sizes \in SeqsOf(1..MaxClusterEntries, 0, MaxClusters)}

\* one file, or one file followed by a second with a fixed list
MergeInputs ==
    {<<L>> : L \in ClusterLists}
    \cup {<<L, ClusterRanges(<<2, 1, 2>>, 0)>> : L \in ClusterLists}
    \cup {<<L, <<>>>> : L \in ClusterLists}

MergeInit ==
    /\ RunIdle
    /\ acct = AcctIdle
    /\ cli = CliIdle
    /\ rt = PoolIdle
    /\ sel = SelIdle
    /\ \E cl \in MergeInputs, m \in 0..MaxTasks, dz \in DivZeroOutcomes :
          merge = [MergeIdle EXCEPT !.pc = "call", !.clusters = cl,
                                    !.maxTasksPerFile = m, !.divZero = dz]

\* MergeClusters(std::move(clusters), maxTasksPerFile)
CallMergeClusters ==
    /\ merge.pc = "call"
    /\ LET r == MergeClusters(merge.clusters, merge.maxTasksPerFile, merge.divZero)
       IN merge' = [merge EXCEPT !.out = r,
                       !.pc = IF r.status = "ok" THEN "merged" ELSE "crashed"]
    /\ UNCHANGED <<runVars, acct, cli, rt, sel>>

\* the length of the longest list of a vector of per-file lists
RECURSIVE MaxLen(_)
MaxLen(lists) ==
    IF lists = <<>> THEN 0
    ELSE LET rest == MaxLen(Tail(lists))
         IN IF Len(Head(lists)) > rest THEN Len(Head(lists)) ELSE rest

\* MergeClusters on the lists the first call returned, with a cap c that is at
\* least the length of each of them
CallMergeClustersAgain(c) ==
    /\ merge.pc = "merged"
    /\ c >= MaxLen(merge.out.mergedClusters)
    /\ LET r == MergeClusters(merge.out.mergedClusters, c, merge.divZero)
       IN merge' = [merge EXCEPT !.cap2 = c, !.out2 = r,
                       !.pc = IF r.status = "ok" THEN "remerged" ELSE "recrashed"]
    /\ UNCHANGED <<runVars, acct, cli, rt, sel>>

MergeNext ==
    \/ CallMergeClusters
    \/ \E c \in 0..(MaxTasks + 1) : CallMergeClustersAgain(c)

SpecMerge == MergeInit /\ [][MergeNext]_vars

(***************************************************************************)
(* sumBytes on its own.                                                    *)
(***************************************************************************)
\* counter values at both ends of the ULong64_t range and in between
CounterValues == {0, 1, Wrap \div 2, Wrap - 1}

ByteDatas == {ByteData(u, c) : u \in CounterValues, c \in CounterValues}

\* the combination of two ByteData: sumBytes of the vector holding them
Combine(a, b) == sumBytes(<<a, b>>)

AcctInit ==
    /\ RunIdle
    /\ merge = MergeIdle
    /\ cli = CliIdle
    /\ rt = PoolIdle
    /\ sel = SelIdle
    /\ \E a \in ByteDatas, b \in ByteDatas, c \in ByteDatas :
          acct = [pc |-> "start", a |-> a, b |-> b, c |-> c]

\* the ways three results can be folded, and the folds with the identity
ApplySumBytes ==
    /\ acct.pc = "start"
    /\ acct' = [pc |-> "summed", a |-> acct.a, b |-> acct.b, c |-> acct.c,
                ab |-> Combine(acct.a, acct.b),
                ba |-> Combine(acct.b, acct.a),
                ab_c |-> Combine(Combine(acct.a, acct.b), acct.c),
                a_bc |-> Combine(acct.a, Combine(acct.b, acct.c)),
                abc |-> sumBytes(<<acct.a, acct.b, acct.c>>),
                a0 |-> Combine(acct.a, ByteData(0, 0)),
                za |-> Combine(ByteData(0, 0), acct.a),
                none |-> sumBytes(<<>>)]
    /\ UNCHANGED <<runVars, merge, cli, rt, sel>>

AcctNext == ApplySumBytes

SpecBytes == AcctInit /\ [][AcctNext]_vars

(***************************************************************************)
(* The command line: ParseArgs (ReadSpeedInput.cxx) and main. argv is the  *)
(* sequence argv[1], ..., argv[argc - 1].                                  *)
(***************************************************************************)
ArgWords ==
    {"--trees", "--files", "--branches", "--branches-regex", "--all-branches",
     "--threads", "--help", "-h", "--fake-flag", "--tasks-per-worker",
     "a", "b", "2"}

\* Data{}
NoData ==
    [fTreeNames |-> <<>>, fFileNames |-> <<>>, fBranchNames |-> <<>>,
     fUseRegex |-> FALSE]

\* Args{}
NoArgs ==
    [fData |-> NoData, fNThreads |-> 0, fAllBranches |-> FALSE, fShouldRun |-> FALSE]

\* std::atoi(argv[i]): the number a word starts with, 0 when it starts with none
Atoi(word) == IF word = "2" THEN 2 ELSE 0

BranchOptionsNeverClash(branchState, own) == FALSE

\* branchState != EBranchState::kNone && branchState != own (lines 60, 69, 76)
BranchOptionsClash(branchState, own) == branchState # "kNone" /\ branchState # own

\* return {} from inside the loop
ReturnNoArgs(st) == [st EXCEPT !.returned = TRUE]

RouteValuePrepends(st, arg) ==
    CASE st.argState = "kTrees" -> [st EXCEPT !.d.fTreeNames = <<arg>> \o @]
      [] st.argState = "kFiles" -> [st EXCEPT !.d.fFileNames = <<arg>> \o @]
      [] st.argState = "kBranches" -> [st EXCEPT !.d.fBranchNames = <<arg>> \o @]
      [] st.argState = "kThreads" -> [st EXCEPT !.nThreads = Atoi(arg)]
      [] OTHER -> ReturnNoArgs(st)

\* the switch on argState (lines 85-91)
RouteValue(st, arg) ==
    CASE st.argState = "kTrees" -> [st EXCEPT !.d.fTreeNames = Append(@, arg)]
      [] st.argState = "kFiles" -> [st EXCEPT !.d.fFileNames = Append(@, arg)]
      [] st.argState = "kBranches" -> [st EXCEPT !.d.fBranchNames = Append(@, arg)]
      [] st.argState = "kThreads" -> [st EXCEPT !.nThreads = Atoi(arg)]
      [] OTHER -> ReturnNoArgs(st)

ParseStepRegexUnset(st, arg) ==
    CASE arg = "--trees" -> [st EXCEPT !.argState = "kTrees"]
      [] arg = "--files" -> [st EXCEPT !.argState = "kFiles"]
      [] arg = "--all-branches" ->
            IF BranchOptionsClash(st.branchState, "kAll") THEN ReturnNoArgs(st)
            ELSE [st EXCEPT !.argState = "kNone", !.branchState = "kAll",
                            !.d.fUseRegex = TRUE, !.d.fBranchNames = <<".*">>]
      [] arg = "--branches" ->
            IF BranchOptionsClash(st.branchState, "kRegular")
            THEN ReturnNoArgs([st EXCEPT !.argState = "kBranches"])
            ELSE [st EXCEPT !.argState = "kBranches", !.branchState = "kRegular"]
      [] arg = "--branches-regex" ->
            IF BranchOptionsClash(st.branchState, "kRegex")
            THEN ReturnNoArgs([st EXCEPT !.argState = "kBranches"])
            ELSE [st EXCEPT !.argState = "kBranches", !.branchState = "kRegex"]
      [] arg = "--threads" -> [st EXCEPT !.argState = "kThreads"]
      [] OTHER -> RouteValue(st, arg)

\* one iteration of the loop over argv (lines 52-92)
ParseStep(st, arg) ==
    CASE arg = "--trees" -> [st EXCEPT !.argState = "kTrees"]
      [] arg = "--files" -> [st EXCEPT !.argState = "kFiles"]
      [] arg = "--all-branches" ->
            IF BranchOptionsClash(st.branchState, "kAll") THEN ReturnNoArgs(st)
            ELSE [st EXCEPT !.argState = "kNone", !.branchState = "kAll",
                            !.d.fUseRegex = TRUE, !.d.fBranchNames = <<".*">>]
      [] arg = "--branches" ->
            IF BranchOptionsClash(st.branchState, "kRegular")
            THEN ReturnNoArgs([st EXCEPT !.argState = "kBranches"])
            ELSE [st EXCEPT !.argState = "kBranches", !.branchState = "kRegular"]
      [] arg = "--branches-regex" ->
            IF BranchOptionsClash(st.branchState, "kRegex")
            THEN ReturnNoArgs([st EXCEPT !.argState = "kBranches"])
            ELSE [st EXCEPT !.argState = "kBranches", !.branchState = "kRegex",
                            !.d.fUseRegex = TRUE]
      [] arg = "--threads" -> [st EXCEPT !.argState = "kThreads"]
      [] OTHER -> RouteValue(st, arg)

\* the loop of lines 51-93 from argv[i] on
RECURSIVE ParseLoop(_, _, _)
ParseLoop(argv, i, st) ==
    IF i > Len(argv) \/ st.returned THEN st
    ELSE ParseLoop(argv, i + 1, ParseStep(st, argv[i]))

\* argc < 2 || (argc == 2 && (argv[1] is "--help" or "-h")) (line 32)
HelpWanted(argv) == Len(argv) < 1 \/ (Len(argv) = 1 /\ argv[1] \in {"--help", "-h"})

ParseArgsNoHelp(argv) ==
    LET st == ParseLoop(argv, 1, [d |-> NoData, nThreads |-> 0, argState |-> "kNone",
                                  branchState |-> "kNone", returned |-> FALSE])
    IN IF st.returned THEN NoArgs
       ELSE [fData |-> st.d, fNThreads |-> st.nThreads,
             fAllBranches |-> (st.branchState = "kAll"), fShouldRun |-> TRUE]

ParseArgs(argv) ==
    LET st == ParseLoop(argv, 1, [d |-> NoData, nThreads |-> 0, argState |-> "kNone",
                                  branchState |-> "kNone", returned |-> FALSE])
    IN IF HelpWanted(argv) THEN NoArgs
       ELSE IF st.returned THEN NoArgs
       ELSE [fData |-> st.d, fNThreads |-> st.nThreads,
             fAllBranches |-> (st.branchState = "kAll"), fShouldRun |-> TRUE]

\* main starts on a command line of at most MaxArgs words; hintSet lists the
\* values ROOT's tasks-per-worker hint has been set to, called the calls of
\* EvalThroughput
CliInit ==
    /\ RunIdle
    /\ merge = MergeIdle
    /\ acct = AcctIdle
    /\ rt = PoolIdle
    /\ sel = SelIdle
    /\ \E argv \in SeqsOf(ArgWords, 0, MaxArgs) :
          cli = [pc |-> "main", argv |-> argv, args |-> NoArgs, hintSet |-> <<>>,
                 called |-> <<>>]

\* const auto args = ParseArgs(argc, argv)
CallParseArgs ==
    /\ cli.pc = "main"
    /\ cli' = [cli EXCEPT !.pc = "parsed", !.args = ParseArgs(cli.argv)]
    /\ UNCHANGED <<runVars, merge, acct, rt, sel>>

\* if (!args.fShouldRun) return 1
MainReturn1 ==
    /\ cli.pc = "parsed"
    /\ ~cli.args.fShouldRun
    /\ cli' = [cli EXCEPT !.pc = "return 1"]
    /\ UNCHANGED <<runVars, merge, acct, rt, sel>>

\* PrintThroughput(EvalThroughput(args.fData, args.fNThreads))
MainEvalThroughput ==
    /\ cli.pc = "parsed"
    /\ cli.args.fShouldRun
    /\ cli' = [cli EXCEPT !.pc = "EvalThroughput",
                          !.called = Append(@, [d |-> cli.args.fData,
                                                nThreads |-> cli.args.fNThreads])]
    /\ UNCHANGED <<runVars, merge, acct, rt, sel>>

CliNext ==
    \/ CallParseArgs
    \/ MainReturn1
    \/ MainEvalThroughput

SpecCLI == CliInit /\ [][CliNext]_vars

(***************************************************************************)
(* ReadTree step by step on the threads of a pool. Lines 175-202 (the      *)
(* thread_local handle and the checks) and lines 204-211 (the reads and    *)
(* the byte counts) are separate steps, so that the calls of two threads   *)
(* interleave. Every TFile::Open makes a new TFile object; id tells the    *)
(* objects apart, live holds the ones that have not been deleted, users    *)
(* who has called through which. Thread 1 may come with the handle an      *)
(* earlier call left it.                                                   *)
(***************************************************************************)
\* most ranges handed to the pool
MaxReadTasks == 3

\* the cluster layout of "a.root" while the pool runs
PoolLayout == <<2, 1>>

\* readRange(range) of processFile(fileIdx): what a task hands to ReadTree
ReadTask(fileName, range) ==
    [file |-> fileName, tree |-> "t", branchNames |-> <<"x", "y">>, range |-> range]

ReadTasks ==
    {ReadTask("a.root", EntryRange(0, 2)), ReadTask("a.root", EntryRange(2, 3)),
     ReadTask("b.root", EntryRange(0, 1)), ReadTask("b.root", EntryRange(1, 3)),
     ReadTask("gone.root", EntryRange(0, 1))}

\* one static handle for all threads
SlotShared(k) == 1

\* thread_local TFile *f: the handle thread k sees
SlotOf(k) == k

NullSlot == [h |-> NullFile, id |-> 0]

WorkerIdle ==
    [task |-> 0, at |-> "idle", id |-> 0, range |-> EntryRange(0, 0),
     fileStartBytes |-> 0]

NoOutput ==
    [opened |-> FALSE, by |-> 0, id |-> 0, handleName |-> "", handleLive |-> FALSE,
     data |-> ByteData(0, 0)]

PoolInit ==
    /\ RunStopped(PoolLayout)
    /\ merge = MergeIdle
    /\ acct = AcctIdle
    /\ cli = CliIdle
    /\ sel = SelIdle
    /\ \E tasks \in SeqsOf(ReadTasks, 1, MaxReadTasks), first \in {"", "a.root", "b.root"} :
          rt = [pc |-> "MapReduce",
                tasks |-> tasks,
                leaf |-> [i \in DOMAIN tasks |-> "pending"],
                worker |-> [k \in 1..MaxThreads |-> WorkerIdle],
                slot |-> [s \in 1..MaxThreads |->
                            IF s = 1 /\ first # ""
                            THEN [h |-> [TFileOpen(first) EXCEPT !.bytesRead = AddU64(@, 14)],
                                  id |-> 1]
                            ELSE NullSlot],
                nextId |-> 2,
                live |-> IF first # "" THEN {1} ELSE {},
                users |-> IF first # "" THEN {<<1, 1>>} ELSE {},
                hist |-> [k \in 1..MaxThreads |-> <<>>],
                out |-> [i \in DOMAIN tasks |-> NoOutput],
                first |-> first]

\* MapReduce hands range i to thread k
PoolTake(k, i) ==
    /\ rt.pc = "MapReduce"
    /\ rt.leaf[i] = "pending"
    /\ rt.worker[k].at = "idle"
    /\ rt' = [rt EXCEPT !.leaf[i] = "running",
                        !.worker[k] = [WorkerIdle EXCEPT !.task = i, !.at = "ReadTree"]]
    /\ UNCHANGED <<runVars, merge, acct, cli, sel>>

\* ReadTree, lines 175-202: thread k opens the file unless its handle is on it,
\* gets the tree and checks the range; an exception ends the MapReduce
ReadTreeOpen(k) ==
    /\ rt.worker[k].at = "ReadTree"
    /\ LET i == rt.worker[k].task
           tk == rt.tasks[i]
           s == SlotOf(k)
           cur == rt.slot[s]
           reopen == cur.h.isNull \/ cur.h.name # tk.file
           f1 == IF reopen THEN [h |-> TFileOpen(tk.file), id |-> rt.nextId] ELSE cur
           t == WorldTree(tk.file, tk.tree)
           f2 == [f1 EXCEPT !.h.bytesRead = AddU64(@, 2)]
           nEntries == GetEntries(t)
           r == IF tk.range.fStart = -1 THEN EntryRange(0, nEntries) ELSE tk.range
           noTree == f1.h.zombie \/ ~t.present
           failed == \/ noTree
                     \/ \E b \in DOMAIN tk.branchNames :
                           tk.branchNames[b] \notin Range(t.branches)
                     \/ (tk.range.fStart # -1 /\ tk.range.fEnd > nEntries)
       IN rt' = [rt EXCEPT
                   !.slot[s] = IF noTree THEN f1 ELSE f2,
                   !.nextId = IF reopen THEN @ + 1 ELSE @,
                   !.live = IF reopen THEN (@ \ {cur.id}) \cup {f1.id} ELSE @,
                   !.users = @ \cup {<<f1.id, k>>},
                   !.hist[k] = Append(@, i),
                   !.out[i] = [@ EXCEPT !.opened = reopen, !.by = k, !.id = f1.id],
                   !.worker[k] = IF failed THEN WorkerIdle
                                 ELSE [task |-> i, at |-> "read", id |-> f1.id,
                                       range |-> r,
                                       fileStartBytes |-> f2.h.bytesRead],
                   !.leaf[i] = IF failed THEN "failed" ELSE @,
                   !.pc = IF failed THEN "thrown" ELSE @]
    /\ UNCHANGED <<runVars, merge, acct, cli, sel>>

\* ReadTree, lines 204-211: thread k reads the entries of the range through its
\* handle and returns the bytes read and what the handle's counter has gained
ReadTreeRead(k) ==
    /\ rt.worker[k].at = "read"
    /\ LET i == rt.worker[k].task
           tk == rt.tasks[i]
           s == SlotOf(k)
           cur == rt.slot[s]
           t == WorldTree(tk.file, tk.tree)
           r == rt.worker[k].range
           bytesRead == UncompressedBytes(tk.branchNames, r.fStart, r.fEnd)
           after == AddU64(cur.h.bytesRead,
                           BasketBytesRead(t, tk.branchNames, r.fStart, r.fEnd))
           fileBytesRead == SubU64(after, rt.worker[k].fileStartBytes)
       IN rt' = [rt EXCEPT
                   !.slot[s].h.bytesRead = after,
                   !.users = @ \cup {<<cur.id, k>>},
                   !.out[i] = [@ EXCEPT !.handleName = cur.h.name,
                                        !.handleLive = cur.id \in rt.live,
                                        !.id = cur.id,
                                        !.data = ByteData(bytesRead, fileBytesRead)],
                   !.leaf[i] = "done",
                   !.worker[k] = WorkerIdle]
    /\ UNCHANGED <<runVars, merge, acct, cli, sel>>

PoolNext ==
    \/ \E k \in 1..MaxThreads : \E i \in DOMAIN rt.tasks : PoolTake(k, i)
    \/ \E k \in 1..MaxThreads : ReadTreeOpen(k)
    \/ \E k \in 1..MaxThreads : ReadTreeRead(k)

SpecReadTree == PoolInit /\ [][PoolNext]_vars

(***************************************************************************)
(* GetMatchingBranchNames on its own: one call on a tree of the files, a   *)
(* selector list and a mode.                                               *)
(***************************************************************************)
\* longest selector list handed to GetMatchingBranchNames on its own
MaxSelectors == 3

\* column names, a name of no column, and patterns
Selectors == {"x", "y", "z", "x_branch", ".*", "x|y", "x_.*"}

\* the trees that exist, as <<file name, tree name>>
Trees == {<<"a.root", "t">>, <<"b.root", "t">>, <<"b.root", "u">>}

SelInit ==
    /\ RunStopped(PoolLayout)
    /\ merge = MergeIdle
    /\ acct = AcctIdle
    /\ cli = CliIdle
    /\ rt = PoolIdle
    /\ \E tr \in Trees, regexes \in SeqsOf(Selectors, 0, MaxSelectors),
          useRegex \in BOOLEAN :
          sel = [pc |-> "call", file |-> tr[1], tree |-> tr[2], regexes |-> regexes,
                 useRegex |-> useRegex,
                 out |-> [status |-> "none", err |-> NoError, branchNames |-> <<>>]]

\* GetMatchingBranchNames(fileName, treeName, regexes, useRegex)
CallGetMatchingBranchNames ==
    /\ sel.pc = "call"
    /\ sel' = [sel EXCEPT
                 !.pc = "done",
                 !.out = GetMatchingBranchNames(sel.file, sel.tree, sel.regexes,
                                                sel.useRegex)]
    /\ UNCHANGED <<runVars, merge, acct, cli, rt>>

SelNext == CallGetMatchingBranchNames

SpecColumns == SelInit /\ [][SelNext]_vars

(***************************************************************************)
(* Properties of EvalThroughput (checked under Spec).                      *)
(***************************************************************************)
\* the dataset passes the four requirements on its sizes
ValidConfig(dd) ==
    /\ Len(dd.fTreeNames) >= 1
    /\ Len(dd.fFileNames) >= 1
    /\ Len(dd.fBranchNames) >= 1
    /\ Len(dd.fTreeNames) \in {1, Len(dd.fFileNames)}

\* what is wrong with file i of a dataset of valid sizes: it cannot be opened,
\* its tree is absent, or a selector matches none of the tree's columns
FailureOf(dd, i) ==
    LET fileName == dd.fFileNames[i]
        t == WorldTree(fileName, TreeNameOf(dd, i))
    IN IF ~FileExists(fileName) THEN "open"
       ELSE IF ~t.present THEN "tree"
       ELSE IF \E s \in Range(dd.fBranchNames) :
                  \A b \in Range(t.branches) : ~matchBranch(b, s, dd.fUseRegex)
       THEN "selector"
       ELSE "none"

Failing(dd) == {i \in DOMAIN dd.fFileNames : FailureOf(dd, i) # "none"}

FirstFailing(dd) == CHOOSE i \in Failing(dd) : \A j \in Failing(dd) : i <= j

ErrorKind(e) ==
    CASE e.what \in {"open", "clusters open"} -> "open"
      [] e.what \in {"tree", "clusters tree"} -> "tree"
      [] e.what \in {"nomatch", "notfound"} -> "selector"
      [] OTHER -> "other"

ConfigErrors == {"no tree name", "no file name", "no branch name", "tree name count"}

\* the ReadTree calls the current call has finished, as <<thread, position>>
ReadsDone == UNION {{<<k, n>> : n \in DOMAIN reads[k]} : k \in DOMAIN reads}

\* the tasks of a parallel run: one per file and merged range
TasksOf == UNION {{<<f, r>> : r \in 1..Len(rangesPerFile[f])} : f \in DOMAIN rangesPerFile}

\* the finished ReadTree calls that ran task t
Executions(t) ==
    {x \in ReadsDone : /\ reads[x[1]][x[2]].file = t[1]
                       /\ reads[x[1]][x[2]].range = rangesPerFile[t[1]][t[2]]}

\* the sum of one counter over the results of the tasks of S
RECURSIVE SumData(_, _)
SumData(S, field) ==
    IF S = {} THEN 0
    ELSE LET t == CHOOSE x \in S : TRUE
         IN (leafData[t][field] + SumData(S \ {t}, field)) % Wrap

\* C1: for a dataset on which EvalThroughput(d, 0) returns, EvalThroughput(d,
\* nThreads) with any granted pool size returns too, with the same
\* uncompressed-byte total and the same compressed-byte total, under every
\* interleaving of the read tasks (and it throws when the sequential run threw)
C1_SameTotals ==
    (callNo = 2 /\ pc \in {"returned", "thrown"}) =>
        /\ (pc = "returned") <=> (finished[1].status = "returned")
        /\ pc = "returned" =>
            /\ result.fUncompressedBytesRead =
                   finished[1].result.fUncompressedBytesRead
            /\ result.fCompressedBytesRead = finished[1].result.fCompressedBytesRead

\* both runs have returned; the parallel one ran on two threads, merged the
\* three clusters of "a.root" into two ranges and read on both threads
C1_Witness ==
    /\ callNo = 2
    /\ pc = "returned"
    /\ finished[1].status = "returned"
    /\ actualThreads = 2
    /\ Len(layoutA) = 3
    /\ \E f \in DOMAIN rangesPerFile :
          d.fFileNames[f] = "a.root" /\ Len(rangesPerFile[f]) = 2
    /\ \A k \in DOMAIN reads : reads[k] # <<>>
    /\ result.fUncompressedBytesRead > 0
    /\ result.fCompressedBytesRead = finished[1].result.fCompressedBytesRead
    /\ result.fCompressedBytesRead > 0

\* C2: in a parallel run the tasks are one per file and merged range; a task is
\* never read twice, a finished task has been read exactly once and nothing
\* else is read; a file's sum is taken only when its tasks are done; and when
\* the Result exists every task is done and the totals are the sum of every
\* task's ByteData, each counted once, in whatever order the tasks finished
C2_TasksExactlyOnce ==
    (callNo = 2 /\ pc \in {"MapReduce", "returned"}) =>
        /\ DOMAIN leaf = TasksOf
        /\ \A t \in TasksOf :
              Cardinality(Executions(t)) = IF leaf[t] = "done" THEN 1 ELSE 0
        /\ Cardinality(ReadsDone) = Cardinality({t \in TasksOf : leaf[t] = "done"})
        /\ \A t \in TasksOf : outer[t[1]] = "done" => leaf[t] = "done"
        /\ \A t \in TasksOf :
              leaf[t] = "done" =>
                  leafData[t].fUncompressedBytesRead =
                      UncompressedBytes(fileBranchNames[t[1]],
                                        rangesPerFile[t[1]][t[2]].fStart,
                                        rangesPerFile[t[1]][t[2]].fEnd)
        /\ pc = "returned" =>
              /\ \A t \in TasksOf : leaf[t] = "done"
              /\ \A k \in DOMAIN threads : threads[k].task = NoTask
              /\ result.fUncompressedBytesRead =
                     SumData(TasksOf, "fUncompressedBytesRead")
              /\ result.fCompressedBytesRead = SumData(TasksOf, "fCompressedBytesRead")

\* a parallel run of at least three tasks has returned; the first task thread 1
\* finished was of the second file and the first of thread 2 of the first file
C2_Witness ==
    /\ callNo = 2
    /\ pc = "returned"
    /\ Cardinality(TasksOf) >= 3
    /\ Len(reads) = 2
    /\ reads[1] # <<>>
    /\ reads[2] # <<>>
    /\ reads[1][1].file = 2
    /\ reads[2][1].file = 1
    /\ result.fUncompressedBytesRead > 0

\* C3: a call returns a Result only when no file of the dataset fails (each
\* opens, holds its tree, and every selector matches a column) and every read
\* succeeded; when a file fails the call throws; a call that has not returned
\* has produced no Result; and the sequential call throws the error of the
\* first failing file, having opened the files up to that one and no later one
C3_NoPartialResult ==
    (callNo \in 1..2 /\ ValidConfig(d)) =>
        /\ pc = "returned" =>
              /\ Failing(d) = {}
              /\ \A x \in ReadsDone : reads[x[1]][x[2]].status = "ok"
        /\ pc = "thrown" => Failing(d) # {}
        /\ pc # "returned" => result = NoResult
        /\ (callNo = 1 /\ pc = "thrown") =>
              /\ Failing(d) # {}
              /\ LET i == FirstFailing(d)
                 IN /\ ErrorKind(err) = FailureOf(d, i)
                    /\ err.file = d.fFileNames[i]
                    /\ opened = SubSeq(d.fFileNames, 1, i)
                    /\ \A n \in DOMAIN reads[1] : reads[1][n].file < i
                    /\ Len(reads[1]) = i - 1

\* the sequential call has read the first file, has a partial total, and has
\* thrown on the second file without returning anything
C3_Witness ==
    /\ callNo = 1
    /\ pc = "thrown"
    /\ ValidConfig(d)
    /\ Len(d.fFileNames) = 2
    /\ Failing(d) = {2}
    /\ reads[1] # <<>>
    /\ total.fUncompressedBytesRead > 0
    /\ result = NoResult

\* C4: a dataset with no tree name, no file name, no selector, or a number of
\* tree names that is neither 1 nor the number of files makes both calls throw
\* a configuration error, with no file opened, no pool created and nothing read
C4_ConfigErrorFirst ==
    (callNo \in 1..2 /\ ~ValidConfig(d)) =>
        /\ pc \in {"EvalThroughput", "thrown"}
        /\ pc = "thrown" => err.what \in ConfigErrors
        /\ opened = <<>>
        /\ ~poolCreated
        /\ ReadsDone = {}
        /\ \A k \in DOMAIN threads : threads[k].f.isNull
        /\ callNo = 2 =>
              /\ finished[1].status = "thrown"
              /\ finished[1].err.what \in ConfigErrors
              /\ finished[1].opened = <<>>

\* the call with nThreads = 2 has thrown on two tree names for one file
C4_Witness ==
    /\ callNo = 2
    /\ pc = "thrown"
    /\ nThreads = 2
    /\ Len(d.fTreeNames) = 2
    /\ Len(d.fFileNames) = 1
    /\ d.fBranchNames # <<>>
    /\ err.what = "tree name count"
    /\ opened = <<>>

\* C11: the Result of the call with nThreads == 0 has thread-pool size 0 and
\* untouched (zero) setup timers; the Result of the call with nThreads > 0 has
\* the granted pool size, whatever was requested; and a call granted fewer
\* threads than requested throws only for a dataset that fails on its own
C11_PoolSizeReported ==
    /\ (callNo = 1 /\ pc = "returned") =>
          /\ result.fThreadPoolSize = 0
          /\ ~result.fSetupTimed
    /\ (callNo = 2 /\ finished[1].status = "returned") =>
          /\ finished[1].result.fThreadPoolSize = 0
          /\ ~finished[1].result.fSetupTimed
    /\ (callNo = 2 /\ pc = "returned") => result.fThreadPoolSize = actualThreads
    /\ (callNo = 2 /\ pc = "thrown" /\ actualThreads < nThreads) =>
          (~ValidConfig(d) \/ Failing(d) # {})

\* two threads were requested, one was granted, and both calls have returned
C11_Witness ==
    /\ callNo = 2
    /\ pc = "returned"
    /\ nThreads = 2
    /\ actualThreads = 1
    /\ result.fThreadPoolSize = 1
    /\ finished[1].status = "returned"
    /\ finished[1].result.fThreadPoolSize = 0
    /\ result.fUncompressedBytesRead > 0

\* the calls of GetMatchingBranchNames made for file i in the current call
ResolutionsOf(i) == {j \in DOMAIN resolved : resolved[j].file = i}

\* C12: in both calls GetMatchingBranchNames is called at most once per file,
\* in input order, and exactly once per file by the time the call returns; a
\* read that has started or finished is of a file whose call succeeded, and it
\* was handed the column list that call returned; in the parallel call no task
\* starts before every file's columns have resolved
C12_ResolvedOncePerFile ==
    (callNo \in 1..2) =>
        /\ \A j \in DOMAIN resolved : resolved[j].file = j
        /\ Len(resolved) <= Len(d.fFileNames)
        /\ pc = "returned" =>
              \A i \in DOMAIN d.fFileNames : Cardinality(ResolutionsOf(i)) = 1
        /\ \A x \in ReadsDone :
              LET rd == reads[x[1]][x[2]]
              IN /\ Cardinality(ResolutionsOf(rd.file)) = 1
                 /\ resolved[rd.file].status = "ok"
                 /\ rd.branchNames = resolved[rd.file].branchNames
        /\ \A k \in DOMAIN threads :
              threads[k].task # NoTask =>
                  /\ Len(resolved) = Len(d.fFileNames)
                  /\ \A j \in DOMAIN resolved : resolved[j].status = "ok"
        /\ (callNo = 2 /\ ReadsDone # {}) =>
              /\ Len(resolved) = Len(d.fFileNames)
              /\ \A j \in DOMAIN resolved : resolved[j].status = "ok"

\* the parallel call has returned after at least three tasks on two files whose
\* resolved column lists differ
C12_Witness ==
    /\ callNo = 2
    /\ pc = "returned"
    /\ Len(d.fFileNames) = 2
    /\ Len(resolved) = 2
    /\ resolved[1].branchNames # resolved[2].branchNames
    /\ Cardinality(ReadsDone) >= 3
    /\ \E x \in ReadsDone : reads[x[1]][x[2]].file = 2
                            /\ reads[x[1]][x[2]].branchNames = resolved[2].branchNames

\* the file and range of each ReadTree call of the calling thread, in order
SequentialReads == [n \in DOMAIN reads[1] |->
                      [file |-> reads[1][n].file, range |-> reads[1][n].range]]

\* one reader call per file: files 1..n in input order, each with all its entries
RECURSIVE WholeFileReads(_)
WholeFileReads(n) ==
    IF n = 0 THEN <<>>
    ELSE Append(WholeFileReads(n - 1),
                [file |-> n,
                 range |-> EntryRange(0, GetEntries(WorldTree(d.fFileNames[n],
                                                              TreeNameOf(d, n))))])

\* one reader call per native cluster: files 1..n in input order, within a file
\* its raw clusters in ascending order
RECURSIVE RawClusterReads(_)
RawClusterReads(n) ==
    IF n = 0 THEN <<>>
    ELSE LET cl == ClusterRanges(WorldTree(d.fFileNames[n],
                                           TreeNameOf(d, n)).clusterSizes, 0)
         IN RawClusterReads(n - 1) \o [c \in DOMAIN cl |-> [file |-> n, range |-> cl[c]]]

\* the uncompressed bytes of the first n reads of the calling thread, added up
RECURSIVE FoldedReads(_)
FoldedReads(n) ==
    IF n = 0 THEN 0
    ELSE AddU64(FoldedReads(n - 1),
                UncompressedBytes(reads[1][n].branchNames, reads[1][n].range.fStart,
                                  reads[1][n].range.fEnd))

\* C13 (as the code has it): the sequential call visits the files in input
\* order and calls the reader once per file, on the whole range [0, entries) of
\* the file's tree, adding each returned ByteData to the running total; when it
\* returns every file has been read
C13_OneReadPerFile ==
    (callNo = 1 /\ pc \in {"EvalThroughputST", "returned"}) =>
        /\ SequentialReads = WholeFileReads(Len(reads[1]))
        /\ Len(reads[1]) = fileIdx - 1
        /\ total.fUncompressedBytesRead = FoldedReads(Len(reads[1]))
        /\ pc = "returned" => Len(reads[1]) = Len(d.fFileNames)

\* the sequential call has returned after reading the three clusters (five
\* entries) of "a.root" in one call and then a second file
C13_Witness ==
    /\ callNo = 1
    /\ pc = "returned"
    /\ Len(d.fFileNames) = 2
    /\ d.fFileNames[1] = "a.root"
    /\ Len(layoutA) = 3
    /\ Len(reads[1]) = 2
    /\ reads[1][1].range = EntryRange(0, 5)
    /\ total.fUncompressedBytesRead > 0

\* C13 as stated: the sequential call calls the reader once per raw native
\* cluster range, files in input order and ranges ascending within a file
C13_OneReadPerCluster ==
    (callNo = 1 /\ pc = "returned") =>
        SequentialReads = RawClusterReads(Len(d.fFileNames))

\* the selectors of the dataset that match no column of the tree of file i
MissingColumns(dd, i) ==
    LET t == WorldTree(dd.fFileNames[i], TreeNameOf(dd, i))
    IN {s \in Range(dd.fBranchNames) :
          \A b \in Range(t.branches) : ~matchBranch(b, s, dd.fUseRegex)}

\* C14: when the sequential call fails because a literal selector names no
\* column of a file's tree, the message of the exception names a missing
\* column, the tree and the file
C14_MissingColumnNamed ==
    (/\ callNo = 1
     /\ pc = "thrown"
     /\ ValidConfig(d)
     /\ ~d.fUseRegex
     /\ Failing(d) # {}
     /\ FailureOf(d, FirstFailing(d)) = "selector") =>
        LET i == FirstFailing(d)
        IN /\ \E s \in MissingColumns(d, i) : s \in Range(err.msg)
           /\ TreeNameOf(d, i) \in Range(err.msg)
           /\ d.fFileNames[i] \in Range(err.msg)

\* the column names of the model's trees
ColumnNames == {"x", "y", "x_branch"}

\* the column names a pattern fully matches
PatternLanguage(pattern) ==
    CASE pattern = ".*" -> ColumnNames
      [] pattern = "x|y" -> {"x", "y"}
      [] pattern = "x_.*" -> {"x_branch"}
      [] OTHER -> {pattern} \cap ColumnNames

\* file i opens and holds its tree
HasTree(dd, i) ==
    /\ FileExists(dd.fFileNames[i])
    /\ WorldTree(dd.fFileNames[i], TreeNameOf(dd, i)).present

\* the selectors that match no column of the tree of file i: in literal mode
\* those equal to no column name, in regex mode those that fully match none
Unmatched(dd, i) ==
    LET columns == Range(WorldTree(dd.fFileNames[i], TreeNameOf(dd, i)).branches)
    IN {s \in Range(dd.fBranchNames) :
          IF dd.fUseRegex THEN PatternLanguage(s) \cap columns = {}
          ELSE s \notin columns}

\* C15: when a selector matches no column of a file's tree (literally in
\* literal mode, a pattern being compared as a name; by a full match in regex
\* mode), the resolution of that file throws, no read of that file is made,
\* and the call does not return and produces no Result
C15_UnmatchedSelectorFails ==
    (callNo \in 1..2 /\ ValidConfig(d)) =>
        /\ \A j \in DOMAIN resolved :
              (HasTree(d, j) /\ Unmatched(d, j) # {}) => resolved[j].status = "throw"
        /\ \A x \in ReadsDone :
              callNo = 1 => Unmatched(d, reads[x[1]][x[2]].file) = {}
        /\ (\E i \in DOMAIN d.fFileNames : HasTree(d, i) /\ Unmatched(d, i) # {}) =>
              /\ pc # "returned"
              /\ result = NoResult
              /\ callNo = 2 => (ReadsDone = {} /\ finished[1].status = "thrown")

\* the sequential call has thrown on the literal selector "x_.*" for a tree
\* that has the column "x_branch"
C15_Witness ==
    /\ callNo = 1
    /\ pc = "thrown"
    /\ ~d.fUseRegex
    /\ d.fBranchNames = <<"x_.*">>
    /\ d.fFileNames = <<"b.root">>
    /\ d.fTreeNames = <<"u">>
    /\ Len(resolved) = 1
    /\ resolved[1].status = "throw"
    /\ err.what = "notfound"
    /\ result = NoResult

\* the parallel call has computed maxTasksPerFile
CapComputed == callNo = 2 /\ poolCreated

\* the parallel call has merged the clusters of every file
RangesMerged == callNo = 2 /\ pc \in {"fileBranchNames", "MapReduce", "returned"}

\* the tasks of file f that have been handed to a thread or have finished
TasksStarted(f) == {t \in DOMAIN leaf : t[1] = f /\ leaf[t] # "pending"}

\* C22: in the parallel call maxTasksPerFile is the least integer that is at
\* least hint * granted threads / number of files, and it is at least 1; each
\* file has at most maxTasksPerFile ranges and read tasks, and the run has at
\* most number of files * maxTasksPerFile tasks and finished reads, however
\* many native clusters the files have
C22_TaskCountBounded ==
    /\ CapComputed =>
          LET nFiles == Len(d.fFileNames)
              wanted == tasksPerWorkerHint * actualThreads
          IN /\ maxTasksPerFile >= 1
             /\ maxTasksPerFile * nFiles >= wanted
             /\ (maxTasksPerFile - 1) * nFiles < wanted
    /\ RangesMerged =>
          /\ Len(rangesPerFile) = Len(d.fFileNames)
          /\ \A f \in DOMAIN rangesPerFile : Len(rangesPerFile[f]) <= maxTasksPerFile
          /\ \A f \in DOMAIN rangesPerFile :
                Cardinality(TasksStarted(f)) <= maxTasksPerFile
          /\ Cardinality(TasksOf) <= Len(d.fFileNames) * maxTasksPerFile
          /\ Cardinality(DOMAIN leaf) <= Len(d.fFileNames) * maxTasksPerFile
          /\ Cardinality(ReadsDone) <= Len(d.fFileNames) * maxTasksPerFile

\* the parallel call has returned with maxTasksPerFile 2 of hint 2, one thread
\* and one file, having read the three native clusters of "a.root" in two tasks
C22_Witness ==
    /\ callNo = 2
    /\ pc = "returned"
    /\ d.fFileNames = <<"a.root">>
    /\ Len(layoutA) = 3
    /\ tasksPerWorkerHint = 2
    /\ actualThreads = 1
    /\ maxTasksPerFile = 2
    /\ Len(rangesPerFile[1]) = 2
    /\ Cardinality(ReadsDone) = 2

\* t->GetEntries() of the tree of file f of the dataset
EntriesOf(f) == GetEntries(WorldTree(d.fFileNames[f], TreeNameOf(d, f)))

\* C23: every range of the parallel call, and so every range a task hands to
\* ReadTree, has 0 <= fStart < fEnd <= the number of entries of its file's
\* tree; no task passes fStart == -1, no read of the parallel call fails and
\* the call never throws the range error
C23_TaskRangesWithinTree ==
    /\ RangesMerged =>
          \A f \in DOMAIN rangesPerFile :
              \A r \in DOMAIN rangesPerFile[f] :
                  /\ 0 <= rangesPerFile[f][r].fStart
                  /\ rangesPerFile[f][r].fStart < rangesPerFile[f][r].fEnd
                  /\ rangesPerFile[f][r].fEnd <= EntriesOf(f)
    /\ callNo = 2 =>
          /\ err.what # "range"
          /\ \A x \in ReadsDone :
                /\ reads[x[1]][x[2]].status = "ok"
                /\ reads[x[1]][x[2]].range \in Range(rangesPerFile[reads[x[1]][x[2]].file])
          /\ \A k \in DOMAIN threads :
                threads[k].task # NoTask =>
                    /\ threads[k].task[2] \in DOMAIN rangesPerFile[threads[k].task[1]]
                    /\ rangesPerFile[threads[k].task[1]][threads[k].task[2]].fStart # -1

\* the parallel call has returned after one task read the first two of the
\* three clusters of "a.root" and another the rest, up to the last of its five
\* entries
C23_Witness ==
    /\ callNo = 2
    /\ pc = "returned"
    /\ d.fFileNames[1] = "a.root"
    /\ Len(layoutA) = 3
    /\ EntriesOf(1) = 5
    /\ \E x \in ReadsDone :
          /\ reads[x[1]][x[2]].file = 1
          /\ reads[x[1]][x[2]].status = "ok"
          /\ reads[x[1]][x[2]].range = EntryRange(3, 5)
    /\ \E x \in ReadsDone :
          /\ reads[x[1]][x[2]].file = 1
          /\ reads[x[1]][x[2]].range = EntryRange(0, 3)

(***************************************************************************)
(* Properties of ParseArgs and main (checked under SpecCLI).               *)
(***************************************************************************)
\* ParseArgs has returned
Parsed == cli.pc \in {"parsed", "return 1", "EvalThroughput"}

\* the words ParseArgs knows as flags
KnownFlags ==
    {"--trees", "--files", "--branches", "--branches-regex", "--all-branches",
     "--threads", "--help", "-h"}

\* C16: a command line that holds the unrecognised flag "--fake-flag", at any
\* place, makes ParseArgs return fShouldRun == false
C16_UnknownFlagRejected ==
    (Parsed /\ "--fake-flag" \in Range(cli.argv)) => ~cli.args.fShouldRun

\* the command line without the two words at positions p and p + 1
WithoutPair(argv, p) == SubSeq(argv, 1, p - 1) \o SubSeq(argv, p + 2, Len(argv))

\* C17: a command line made of accepted arguments and "--tasks-per-worker 2"
\* makes ParseArgs return fShouldRun == true and set the tasks-per-worker hint
\* to 2, with the name lists and the thread count of the accepted arguments
\* (neither "--tasks-per-worker" nor "2" is added to a list)
C17_TasksPerWorkerSet ==
    Parsed =>
        \A p \in 1..(Len(cli.argv) - 1) :
            (/\ cli.argv[p] = "--tasks-per-worker"
             /\ cli.argv[p + 1] = "2"
             /\ "--tasks-per-worker" \notin Range(WithoutPair(cli.argv, p))
             /\ "--fake-flag" \notin Range(WithoutPair(cli.argv, p))
             /\ ParseArgs(WithoutPair(cli.argv, p)).fShouldRun) =>
                /\ cli.args.fShouldRun
                /\ cli.hintSet = <<2>>
                /\ cli.args.fData = ParseArgs(WithoutPair(cli.argv, p)).fData
                /\ cli.args.fNThreads = ParseArgs(WithoutPair(cli.argv, p)).fNThreads

\* the three flags that choose how columns are selected
ModeFlags == {"--all-branches", "--branches", "--branches-regex"}

\* C18: a command line that holds two different ones of --all-branches,
\* --branches and --branches-regex, in any order and with anything between
\* them, makes ParseArgs return fShouldRun == false
C18_ModesExclusive ==
    (Parsed /\ Cardinality(ModeFlags \cap Range(cli.argv)) >= 2) =>
        ~cli.args.fShouldRun

\* main has returned 1 on --branches and, two words later, --all-branches
C18_Witness ==
    /\ cli.pc = "return 1"
    /\ cli.argv = <<"--branches", "a", "--files", "--all-branches">>
    /\ cli.args = NoArgs

\* the six flags ParseArgs acts on inside its loop
LoopFlags ==
    {"--trees", "--files", "--branches", "--branches-regex", "--all-branches",
     "--threads"}

\* the words that are no flag of any kind
PlainWords == {"a", "b", "2"}

\* the flag nearest before position i + 1 of the command line
RECURSIVE LastFlag(_, _)
LastFlag(argv, i) ==
    IF i = 0 THEN "none"
    ELSE IF argv[i] \in LoopFlags THEN argv[i]
    ELSE LastFlag(argv, i - 1)

\* the plain words among the first n whose nearest flag before is in flags, in
\* the order of the command line
RECURSIVE ValuesAfter(_, _, _)
ValuesAfter(argv, n, flags) ==
    IF n = 0 THEN <<>>
    ELSE IF argv[n] \in PlainWords /\ LastFlag(argv, n - 1) \in flags
    THEN Append(ValuesAfter(argv, n - 1, flags), argv[n])
    ELSE ValuesAfter(argv, n - 1, flags)

\* C19: for a command line of the six flags and plain words that ParseArgs
\* accepts, fFileNames, fTreeNames and fBranchNames are the words whose most
\* recent flag is --files, --trees and --branches (or --branches-regex), in
\* their number and order, and fNThreads is the number after --threads, 0
\* when no word follows --threads
C19_ValuesRouted ==
    (Parsed /\ cli.args.fShouldRun /\ Range(cli.argv) \subseteq LoopFlags \cup PlainWords) =>
        LET n == Len(cli.argv)
            counts == ValuesAfter(cli.argv, n, {"--threads"})
        IN /\ cli.args.fData.fFileNames = ValuesAfter(cli.argv, n, {"--files"})
           /\ cli.args.fData.fTreeNames = ValuesAfter(cli.argv, n, {"--trees"})
           /\ "--all-branches" \notin Range(cli.argv) =>
                 cli.args.fData.fBranchNames =
                     ValuesAfter(cli.argv, n, {"--branches", "--branches-regex"})
           /\ counts = <<>> => cli.args.fNThreads = 0
           /\ (counts # <<>> /\ counts[Len(counts)] = "2") => cli.args.fNThreads = 2
           /\ \A i \in 1..n : cli.argv[i] \in PlainWords => LastFlag(cli.argv, i) # "none"

\* ParseArgs has accepted two different file names and a thread count
C19_Witness ==
    /\ Parsed
    /\ cli.args.fShouldRun
    /\ cli.argv = <<"--files", "b", "a", "--threads">>
    /\ cli.args.fData.fFileNames = <<"b", "a">>
    /\ cli.args.fNThreads = 0

\* C20: on an empty command line, and on the single word --help or -h,
\* ParseArgs returns fShouldRun == false and main returns without calling
\* EvalThroughput
C20_HelpDoesNotRun ==
    (cli.pc # "idle" /\ cli.argv \in {<<>>, <<"--help">>, <<"-h">>}) =>
        /\ Parsed => ~cli.args.fShouldRun
        /\ cli.pc \in {"main", "parsed", "return 1"}
        /\ cli.called = <<>>

\* main has returned 1 on the single word -h
C20_Witness ==
    /\ cli.pc = "return 1"
    /\ cli.argv = <<"-h">>
    /\ ~cli.args.fShouldRun
    /\ cli.called = <<>>

\* C21: whenever ParseArgs returns fShouldRun == true, fUseRegex is true
\* exactly when --branches-regex or --all-branches is on the command line, and
\* fAllBranches is true exactly when --all-branches is, and then fBranchNames
\* is the one selector ".*"
C21_RegexAndAllFlags ==
    (Parsed /\ cli.args.fShouldRun) =>
        /\ cli.args.fData.fUseRegex
              <=> ({"--branches-regex", "--all-branches"} \cap Range(cli.argv) # {})
        /\ cli.args.fAllBranches <=> ("--all-branches" \in Range(cli.argv))
        /\ cli.args.fAllBranches => cli.args.fData.fBranchNames = <<".*">>

\* main has gone on to EvalThroughput on a command line with --all-branches
\* after file and tree names
C21_Witness ==
    /\ cli.pc = "EvalThroughput"
    /\ cli.argv = <<"--files", "a", "--all-branches", "--trees">>
    /\ cli.args.fAllBranches
    /\ cli.args.fData.fUseRegex
    /\ cli.args.fData.fBranchNames = <<".*">>
    /\ cli.args.fData.fFileNames = <<"a">>

(***************************************************************************)
(* Properties of the handle of ReadTree (checked under SpecReadTree).      *)
(***************************************************************************)
\* the file name of the handle thread k holds when it starts its n-th ReadTree
\* call: that of its call before, or of the handle it came with ("" for none)
CachedName(k, n) ==
    IF n > 1 THEN rt.tasks[rt.hist[k][n - 1]].file
    ELSE IF k = 1 THEN rt.first
    ELSE ""

\* C24: no TFile object is called through by two threads; a thread that reads
\* does so through a live handle on the file of its task; a ReadTree call
\* opens the file exactly when the thread holds no handle or one with another
\* file name, so that a thread's consecutive calls on one file share a handle;
\* and the compressed bytes a call returns are those of the baskets of its own
\* range, whatever the other threads read meanwhile
C24_HandlePerThread ==
    rt.pc # "idle" =>
        /\ \A u \in rt.users : \A v \in rt.users : u[1] = v[1] => u[2] = v[2]
        /\ \A k \in 1..MaxThreads :
              rt.worker[k].at = "read" =>
                  /\ rt.worker[k].id \in rt.live
                  /\ \A j \in 1..MaxThreads : j # k => <<rt.worker[k].id, j>> \notin rt.users
        /\ \A i \in DOMAIN rt.tasks :
              rt.leaf[i] = "done" =>
                  /\ rt.out[i].handleLive
                  /\ rt.out[i].handleName = rt.tasks[i].file
                  /\ rt.out[i].data.fCompressedBytesRead =
                        BasketBytesRead(WorldTree(rt.tasks[i].file, rt.tasks[i].tree),
                                        rt.tasks[i].branchNames,
                                        rt.tasks[i].range.fStart, rt.tasks[i].range.fEnd)
                  /\ rt.out[i].data.fUncompressedBytesRead =
                        UncompressedBytes(rt.tasks[i].branchNames,
                                          rt.tasks[i].range.fStart, rt.tasks[i].range.fEnd)
        /\ \A k \in 1..MaxThreads :
              \A n \in DOMAIN rt.hist[k] :
                  LET i == rt.hist[k][n]
                  IN /\ rt.out[i].by = k
                     /\ rt.out[i].opened <=>
                           (CachedName(k, n) = "" \/ CachedName(k, n) # rt.tasks[i].file)
                     /\ (n > 1 /\ ~rt.out[i].opened) => rt.out[i].id = rt.out[rt.hist[k][n - 1]].id

\* thread 1 came with a handle on "b.root", opened "a.root" for its first range
\* and reused the handle for its second, while thread 2 read a range of
\* "b.root"; all three are done
C24_Witness ==
    /\ rt.pc = "MapReduce"
    /\ rt.first = "b.root"
    /\ Len(rt.tasks) = 3
    /\ \A i \in DOMAIN rt.tasks : rt.leaf[i] = "done"
    /\ Len(rt.hist[1]) = 2
    /\ Len(rt.hist[2]) = 1
    /\ rt.tasks[rt.hist[1][1]].file = "a.root"
    /\ rt.tasks[rt.hist[1][2]].file = "a.root"
    /\ rt.tasks[rt.hist[2][1]].file = "b.root"
    /\ rt.out[rt.hist[1][1]].opened
    /\ ~rt.out[rt.hist[1][2]].opened
    /\ rt.out[rt.hist[2][1]].opened
    /\ rt.out[rt.hist[1][2]].data.fCompressedBytesRead > 0

(***************************************************************************)
(* Properties of GetMatchingBranchNames (checked under SpecColumns).       *)
(***************************************************************************)
\* selector s matches column b: equality in literal mode, a full match of the
\* pattern in regex mode
Selects(s, b, useRegex) == IF useRegex THEN b \in PatternLanguage(s) ELSE b = s

\* the columns of the tree of the call
ColumnsOfCall == WorldTree(sel.file, sel.tree).branches

\* every selector of the call matches at least one column of the tree
AllSelectorsMatch ==
    \A i \in DOMAIN sel.regexes :
        \E b \in Range(ColumnsOfCall) : Selects(sel.regexes[i], b, sel.useRegex)

\* the columns matched by at least one selector, each once, in the tree's order
SelectedColumns ==
    SelectSeq(ColumnsOfCall,
              LAMBDA b : \E i \in DOMAIN sel.regexes :
                            Selects(sel.regexes[i], b, sel.useRegex))

\* C26: for a non-empty selector list of which every selector matches at least
\* one column of the tree, GetMatchingBranchNames returns, and returns exactly
\* the columns matched by at least one selector, each once, in the tree's
\* order; also when a selector is repeated or matches only columns that an
\* earlier selector matches
C26_MatchedColumnsReturned ==
    (sel.pc = "done" /\ sel.regexes # <<>> /\ AllSelectorsMatch) =>
        /\ sel.out.status = "ok"
        /\ sel.out.branchNames = SelectedColumns

\* selector i is the first selector of the call that matches some column
FirstForSomeColumn(i) ==
    \E b \in Range(ColumnsOfCall) :
        /\ Selects(sel.regexes[i], b, sel.useRegex)
        /\ \A j \in 1..(i - 1) : ~Selects(sel.regexes[j], b, sel.useRegex)

\* C26 for the lists in which no selector is repeated and every selector is
\* the first to match some column: the call returns the matched columns, each
\* once, in the tree's order
C26_UnshadowedSelectors ==
    (/\ sel.pc = "done"
     /\ sel.regexes # <<>>
     /\ \A i \in DOMAIN sel.regexes : FirstForSomeColumn(i)) =>
        /\ sel.out.status = "ok"
        /\ sel.out.branchNames = SelectedColumns

\* where C26 fails: a selector is not the first to match any column, and the
\* call throws "Some branches/regexes weren't found in the tree..."
C26_ShadowedSelectorThrows ==
    (/\ sel.pc = "done"
     /\ sel.regexes # <<>>
     /\ AllSelectorsMatch
     /\ \E i \in DOMAIN sel.regexes : ~FirstForSomeColumn(i)) =>
        /\ sel.out.status = "throw"
        /\ sel.out.err.what = "notfound"

(***************************************************************************)
(* Properties of MergeClusters (checked under SpecMerge).                  *)
(***************************************************************************)
\* the first call of MergeClusters has returned or crashed
MergeCalled == merge.pc \in {"merged", "remerged", "recrashed", "crashed"}

\* the first call of MergeClusters has returned
MergeReturned == merge.pc \in {"merged", "remerged", "recrashed"}

\* the native clusters of list L that lie within range r
ClustersWithin(L, r) ==
    {c \in DOMAIN L : r.fStart <= L[c].fStart /\ L[c].fEnd <= r.fEnd}

\* the entry numbers at which a cluster of L starts or ends
Boundaries(L) == {L[c].fStart : c \in DOMAIN L} \cup {L[c].fEnd : c \in DOMAIN L}

\* C5: with maxTasksPerFile m >= 1, MergeClusters returns, and the list it
\* returns for a file with n native clusters has exactly min(n, m) ranges
C5_MergedCount ==
    (MergeCalled /\ merge.maxTasksPerFile >= 1) =>
        /\ merge.pc # "crashed"
        /\ DOMAIN merge.out.mergedClusters = DOMAIN merge.clusters
        /\ \A f \in DOMAIN merge.clusters :
              Len(merge.out.mergedClusters[f])
                 = Min(Len(merge.clusters[f]), merge.maxTasksPerFile)

C5_Witness ==
    /\ merge.pc = "merged"
    /\ merge.maxTasksPerFile = 2
    /\ Len(merge.clusters[1]) = 5
    /\ Len(merge.out.mergedClusters[1]) = 2
    /\ Len(merge.clusters) = 2
    /\ Len(merge.out.mergedClusters[2]) = 0

\* C6: with m >= 1, the ranges returned for a file are non-empty, ascending and
\* abutting, start at 0 and end where the last native cluster ends, and each
\* of their boundaries is a boundary of a native cluster
C6_MergedPartition ==
    (MergeReturned /\ merge.maxTasksPerFile >= 1) =>
        \A f \in DOMAIN merge.clusters :
            LET L == merge.clusters[f]
                M == merge.out.mergedClusters[f]
            IN /\ (L = <<>>) <=> (M = <<>>)
               /\ L # <<>> =>
                    /\ M[1].fStart = 0
                    /\ M[Len(M)].fEnd = L[Len(L)].fEnd
               /\ \A i \in DOMAIN M : M[i].fStart < M[i].fEnd
               /\ \A i \in 1..(Len(M) - 1) : M[i].fEnd = M[i + 1].fStart
               /\ \A i \in DOMAIN M :
                    {M[i].fStart, M[i].fEnd} \subseteq Boundaries(L)

C6_Witness ==
    /\ merge.pc = "merged"
    /\ merge.maxTasksPerFile = 3
    /\ Len(merge.clusters[1]) = 5
    /\ merge.clusters[1][5].fEnd = 8
    /\ merge.out.mergedClusters[1]
         = <<EntryRange(0, 3), EntryRange(3, 6), EntryRange(6, 8)>>

\* C7: when nFolds = n / m > 0, each of the first n mod m merged ranges holds
\* exactly nFolds + 1 native clusters and each of the others exactly nFolds
C7_EvenSpread ==
    (MergeReturned /\ merge.maxTasksPerFile >= 1) =>
        \A f \in DOMAIN merge.clusters :
            LET L == merge.clusters[f]
                M == merge.out.mergedClusters[f]
                m == merge.maxTasksPerFile
                nFolds == Len(L) \div m
            IN nFolds > 0 =>
                 /\ Len(M) >= Len(L) % m
                 /\ \A j \in DOMAIN M :
                       Cardinality(ClustersWithin(L, M[j]))
                          = IF j <= Len(L) % m THEN nFolds + 1 ELSE nFolds

C7_Witness ==
    /\ merge.pc = "merged"
    /\ merge.maxTasksPerFile = 2
    /\ Len(merge.clusters[1]) = 5
    /\ Cardinality(ClustersWithin(merge.clusters[1], merge.out.mergedClusters[1][1])) = 3
    /\ Cardinality(ClustersWithin(merge.clusters[1], merge.out.mergedClusters[1][2])) = 2

\* C8: MergeClusters called with maxTasksPerFile == 0 completes normally and
\* returns every file's native cluster list unchanged
C8_ZeroCapIsNoMerging ==
    (MergeCalled /\ merge.maxTasksPerFile = 0) =>
        /\ merge.pc # "crashed"
        /\ merge.out.mergedClusters = merge.clusters

\* C9: MergeClusters with a cap that is at least the length of every list
\* returns the lists element for element, on native lists and on lists that
\* MergeClusters returned
C9_CapAtLeastLength ==
    /\ (MergeCalled /\ merge.maxTasksPerFile >= MaxLen(merge.clusters)) =>
          /\ merge.pc # "crashed"
          /\ merge.out.mergedClusters = merge.clusters
    /\ merge.pc # "recrashed"
    /\ merge.pc = "remerged" =>
          merge.out2.mergedClusters = merge.out.mergedClusters

\* C9 restricted to caps >= 1: a cap c >= 1 that is at least the length of
\* every list returns the lists element for element, on the first call and on
\* the second (the division by zero of C8 needs the cap 0)
C9_PositiveCap ==
    /\ (MergeCalled /\ merge.maxTasksPerFile >= 1
          /\ merge.maxTasksPerFile >= MaxLen(merge.clusters)) =>
          /\ merge.pc # "crashed"
          /\ merge.out.mergedClusters = merge.clusters
    /\ (merge.pc \in {"remerged", "recrashed"} /\ merge.cap2 >= 1) =>
          /\ merge.pc = "remerged"
          /\ merge.out2.mergedClusters = merge.out.mergedClusters

\* what the merge loop did for each file in a call of MergeClusters on lists
\* with cap m >= 1: it read clustersInThisFile at no index beyond the last, it
\* made at most one range per cluster, and it left the remainder counter at 0
LoopInBounds(lists, r) ==
    \A f \in DOMAIN lists :
        /\ ~r.trace[f].oob
        /\ r.trace[f].maxIdx < Len(lists[f])
        /\ Len(r.trace[f].ranges) <= Len(lists[f])
        /\ r.trace[f].nReminderClusters = 0

\* C25: for every list of n >= 0 clusters and every maxTasksPerFile m >= 1 the
\* merge loop reads the list at no index >= n, comes to an end, and ends with
\* nReminderClusters == 0, so that the assertion holds; on native lists and on
\* lists MergeClusters returned
C25_MergeLoopInBounds ==
    /\ (MergeCalled /\ merge.maxTasksPerFile >= 1) =>
          /\ merge.out.status = "ok"
          /\ LoopInBounds(merge.clusters, merge.out)
    /\ (merge.pc \in {"remerged", "recrashed"} /\ merge.cap2 >= 1) =>
          /\ merge.out2.status = "ok"
          /\ LoopInBounds(merge.out.mergedClusters, merge.out2)

\* five clusters were merged into two ranges with one cluster of remainder: the
\* loop read up to the last index, 4, and used the remainder up
C25_Witness ==
    /\ merge.pc = "merged"
    /\ merge.maxTasksPerFile = 2
    /\ Len(merge.clusters[1]) = 5
    /\ merge.out.trace[1].maxIdx = 4
    /\ ~merge.out.trace[1].oob
    /\ merge.out.trace[1].nReminderClusters = 0
    /\ Len(merge.out.trace[1].ranges) = 2

(***************************************************************************)
(* Properties of sumBytes (checked under SpecBytes).                       *)
(***************************************************************************)
\* C10: folding ByteData with sumBytes is pointwise addition of the two
\* counters modulo the word size; it is associative and commutative and
\* {0, 0} is its identity, also when a counter wraps around
C10_SumBytesMonoid ==
    acct.pc = "summed" =>
        /\ acct.ab = ByteData(
              (acct.a.fUncompressedBytesRead + acct.b.fUncompressedBytesRead) % Wrap,
              (acct.a.fCompressedBytesRead + acct.b.fCompressedBytesRead) % Wrap)
        /\ acct.ab = acct.ba
        /\ acct.ab_c = acct.a_bc
        /\ acct.abc = acct.ab_c
        /\ acct.a0 = acct.a
        /\ acct.za = acct.a
        /\ acct.none = ByteData(0, 0)

\* both counters of a + b wrap, (a + b) + c is folded, a is not the identity
C10_Witness ==
    /\ acct.pc = "summed"
    /\ acct.a.fUncompressedBytesRead + acct.b.fUncompressedBytesRead >= Wrap
    /\ acct.a.fCompressedBytesRead + acct.b.fCompressedBytesRead >= Wrap
    /\ acct.a.fCompressedBytesRead # acct.a.fUncompressedBytesRead
    /\ acct.c # ByteData(0, 0)
    /\ acct.ab_c = acct.a_bc

=============================================================================
